---- MODULE Spec2Model ----
(***************************************************************************)
(* A model of comlink2's remote-object bridge (src/remoteObject.ts) and of *)
(* its sub-channel multiplexer (createChannel in src/endpoint.ts).         *)
(*                                                                         *)
(* Two realms, "c" and "s", are joined by one physical transport: what one *)
(* realm posts on its base endpoint arrives, in FIFO order, as a message   *)
(* event on the base endpoint of the other.  Realm "c" runs wrap(E), realm *)
(* "s" runs expose(R, F).  One delivery of one message event is one step:  *)
(* every listener registered on the base endpoint runs, and with it the    *)
(* promise jobs it leaves behind.                                          *)
(***************************************************************************)
EXTENDS Integers, Sequences, FiniteSets, TLC

VARIABLES
  uniqueInRealmId,  \* realm -> the counter of getId
  uuidsIssued,      \* realm -> number of crypto.randomUUID() results so far
  promiseMap,       \* realm -> (request id -> index of its promise in promises)
  promises,         \* realm -> the promises made by createPromise, in order
  listeners,        \* realm -> the message listeners on the base endpoint
  queue,            \* realm -> message events in flight to that realm (FIFO)
  suspended,        \* realm -> dispatcher runs waiting at "await fn(...args)"
  reqs,             \* realm -> every message a dispatcher went on to process
  runs,             \* the listener runs of the latest step
  opsDone,          \* number of operations the caller performed on its proxy
  rawDone,          \* number of messages the peer posted by hand
  muxDone,          \* number of createChannel / post steps of the multiplexer
  proxies           \* the proxies createProxy made for wrap(E) in realm "c"

vars == <<uniqueInRealmId, uuidsIssued, promiseMap, promises, listeners, queue,
          suspended, reqs, runs, opsDone, rawDone, muxDone, proxies>>

----------------------------------------------------------------------------
(* Bounds of the model.                                                    *)

\* Number.MAX_SAFE_INTEGER, scaled down so that getId's switch to random
\* identifiers is within reach; getId keeps its own "- 1000".
MAX_SAFE_INTEGER == 1003
MaxIds == 6      \* identifiers one realm may allocate
MaxOps == 2      \* operations of the caller on the root proxy
MaxRaw == 1      \* messages the peer posts by hand
MaxMux == 3      \* createChannel and post steps of the multiplexer runs
MaxProxies == 3  \* proxies createProxy may make for one wrap(E)
MaxHops == 3     \* messages one dispatcher handles when replies answer replies

Realms == {"c", "s"}
Peer(r) == IF r = "c" THEN "s" ELSE "c"

----------------------------------------------------------------------------
(* JavaScript values.  Every value is a record with a field t; an object   *)
(* that travels as a message (a request, a reply, an encoded value, a      *)
(* channel envelope) is a record of its own fields and has no field t.     *)

Undef == [t |-> "undefined"]
Null == [t |-> "null"]
NaN == [t |-> "nan"]
Num(n) == [t |-> "num", n |-> n]
\* A string is the concatenation of its pieces: 'myconstructor' is
\* <<"my", "constructor">>, the empty string is <<>>.
Str(s) == [t |-> "str", s |-> s]
S1(tok) == Str(<<tok>>)
\* The k-th result of crypto.randomUUID() in realm r: a string.
Uuid(r, k) == [t |-> "uuid", realm |-> r, n |-> k]
Arr(items) == [t |-> "arr", items |-> items]
Fn(name) == [t |-> "fn", name |-> name]
Obj(proto, own) == [t |-> "obj", proto |-> proto, own |-> own]
ErrorObj(msg) == [t |-> "error", message |-> msg]
TypeErr == ErrorObj(Str(<<"TypeError">>))
ProxyVal(path, chain) == [t |-> "proxy", path |-> path, chain |-> chain]
\* The promise made by the pi-th createPromise of the realm.
PromiseVal(pi) == [t |-> "promise", pi |-> pi]

IsRec(v) == "t" \notin DOMAIN v

TypeOf(v) ==
  IF IsRec(v) THEN "object"
  ELSE CASE v.t \in {"obj", "arr", "error", "null", "promise"} -> "object"
         [] v.t \in {"fn", "proxy"} -> "function"
         [] v.t \in {"num", "nan"} -> "number"
         [] v.t \in {"str", "uuid"} -> "string"
         [] OTHER -> "undefined"

Truthy(v) ==
  IF IsRec(v) THEN TRUE
  ELSE CASE v.t \in {"undefined", "null", "nan"} -> FALSE
         [] v.t = "num" -> v.n # 0
         [] v.t = "str" -> v.s # <<>>
         [] OTHER -> TRUE

IsArray(v) == ~IsRec(v) /\ v.t = "arr"

\* d.f for a field of a message: undefined when the field is absent, and on
\* a primitive.
Get(v, f) == IF IsRec(v) /\ f \in DOMAIN v THEN v[f] ELSE Undef

\* key.includes(pat)
includes(key, pat) == key.t = "str" /\ \E i \in 1..Len(key.s) : key.s[i] = pat

\* The outcome of a statement that may throw.
NoThrow == [thrown |-> FALSE, err |-> Undef]
Throw(e) == [thrown |-> TRUE, err |-> e]

----------------------------------------------------------------------------
(* The security assertions, remoteObject.ts 4-56.                          *)

\* assertValidKeyChain without its test for 'constructor'.
assertValidKeyChainNoConstructor(keyChain) ==
  IF ~IsArray(keyChain)
  THEN Throw(ErrorObj(Str(<<"Invalid keyChain: must be an array">>)))
  ELSE IF \E i \in 1..Len(keyChain.items) :
            LET key == keyChain.items[i] IN
              \/ IsRec(key)
              \/ TypeOf(key) # "string"
              \/ includes(key, "__proto__")
              \/ includes(key, "prototype")
       THEN Throw(ErrorObj(Str(<<"Invalid keyChain: contains ", "unsafe property names">>)))
       ELSE NoThrow

assertValidKeyChain(keyChain) ==
  IF ~IsArray(keyChain)
  THEN Throw(ErrorObj(Str(<<"Invalid keyChain: must be an array">>)))
  ELSE IF \E i \in 1..Len(keyChain.items) :
            LET key == keyChain.items[i] IN
              \/ IsRec(key)
              \/ TypeOf(key) # "string"
              \/ includes(key, "__proto__")
              \/ includes(key, "prototype")
              \/ includes(key, "constructor")
       THEN Throw(ErrorObj(Str(<<"Invalid keyChain: contains ", "unsafe property names">>)))
       ELSE NoThrow

\* assertValidRPCCall without the test of args.
assertValidRPCCallNoArgs(data) ==
  IF ~Truthy(data) \/ TypeOf(data) # "object"
  THEN Throw(ErrorObj(Str(<<"Invalid RPC call: not an object">>)))
  ELSE IF Get(data, "id") = Undef \/ ~Truthy(Get(data, "type"))
       THEN Throw(ErrorObj(Str(<<"Invalid RPC call: missing id or type">>)))
       ELSE assertValidKeyChain(Get(data, "keyChain"))

assertValidRPCCall(data) ==
  IF ~Truthy(data) \/ TypeOf(data) # "object"
  THEN Throw(ErrorObj(Str(<<"Invalid RPC call: not an object">>)))
  ELSE IF Get(data, "id") = Undef \/ ~Truthy(Get(data, "type"))
       THEN Throw(ErrorObj(Str(<<"Invalid RPC call: missing id or type">>)))
       ELSE IF assertValidKeyChain(Get(data, "keyChain")).thrown
            THEN assertValidKeyChain(Get(data, "keyChain"))
            ELSE IF /\ Get(data, "type") \in {S1("call"), S1("construct")}
                    /\ ~IsArray(Get(data, "args"))
                 THEN Throw(ErrorObj(Str(<<"Invalid RPC call: args must be an array">>)))
                 ELSE NoThrow

assertValidRPCResponse(data) ==
  IF ~Truthy(data) \/ TypeOf(data) # "object"
  THEN Throw(ErrorObj(Str(<<"Invalid RPC response: not an object">>)))
  ELSE IF Get(data, "id") = Undef \/ Get(data, "type") # S1("response")
       THEN Throw(ErrorObj(Str(<<"Invalid RPC response: missing id or invalid type">>)))
       ELSE NoThrow

\* assertIsFunction throwing a message that does not say what is wrong.
assertIsFunctionVague(target, name) ==
  IF TypeOf(target) # "function"
  THEN Throw(ErrorObj(Str(<<"Invalid target '", name, "'">>)))
  ELSE NoThrow

assertIsFunction(target, name) ==
  IF TypeOf(target) # "function"
  THEN Throw(ErrorObj(Str(<<"Target '", name, "' is ", "not a function">>)))
  ELSE NoThrow

\* Object.prototype.hasOwnProperty.call(obj, property)
hasOwnProperty(obj, property) ==
  /\ ~IsRec(obj)
  /\ CASE obj.t = "obj" -> property.s \in DOMAIN obj.own
       [] obj.t = "arr" -> property.s = <<"length">>
       [] obj.t = "fn" -> \/ property.s \in {<<"length">>, <<"name">>}
                          \/ obj.name = "Counter" /\ property.s = <<"zero">>
       [] OTHER -> FALSE

\* assertPropertyExists testing "property in obj" instead of hasOwnProperty.
assertPropertyExistsIn(obj, property) ==
  IF ~Truthy(obj) \/ TypeOf(obj) # "object"
  THEN Throw(ErrorObj(Str(<<"Cannot access property '">> \o property.s \o <<"' on non-object">>)))
  ELSE IF ~(hasOwnProperty(obj, property)
            \/ (obj.t = "obj" /\ property.s \in {<<"inc">>, <<"toString">>}))
       THEN Throw(ErrorObj(Str(<<"Property '">> \o property.s \o <<"' not found or not accessible">>)))
       ELSE NoThrow

assertPropertyExists(obj, property) ==
  IF ~Truthy(obj) \/ TypeOf(obj) # "object"
  THEN Throw(ErrorObj(Str(<<"Cannot access property '">> \o property.s \o <<"' on non-object">>)))
  ELSE IF ~hasOwnProperty(obj, property)
       THEN Throw(ErrorObj(Str(<<"Property '">> \o property.s \o <<"' not found or not accessible">>)))
       ELSE NoThrow

----------------------------------------------------------------------------
(* The exposed root and the functions it holds: the roots of the round-    *)
(* trip scenarios put into one object.                                     *)
(*   add(a, b) { return a + b }          a: { b: 7 }                       *)
(*   boom() { throw new Error("bad") }   fail() { return Promise.reject() }*)
(*   slow() { return new Promise(...) }  settled later, from outside       *)
(*   Counter: class { static zero = 0; constructor(n) { this.n = n }       *)
(*                    inc() { return ++this.n } }                          *)
(*   both(fn) { fn(1); return fn(2) }    calls its argument twice          *)
(*   counter: new Counter(0)             inc is inherited, n is own        *)
(* cb is the caller's own function x => x * 2, passed as an argument.      *)

Key(tok) == <<tok>>

Root ==
  Obj("Object",
      (Key("add") :> Fn("add")) @@ (Key("a") :> Obj("Object", (Key("b") :> Num(7))))
      @@ (Key("boom") :> Fn("boom")) @@ (Key("fail") :> Fn("fail"))
      @@ (Key("slow") :> Fn("slow")) @@ (Key("Counter") :> Fn("Counter"))
      @@ (Key("both") :> Fn("both"))
      @@ (Key("list") :> Fn("list")) @@ (Key("make") :> Fn("make"))
      @@ (Key("counter") :> Obj("Counter", (Key("n") :> Num(0)))))

\* The properties an object inherits from its prototype: never own.
Inherited(proto) ==
  IF proto = "Counter" THEN {Key("inc"), Key("constructor"), Key("toString")}
  ELSE {Key("constructor"), Key("toString")}

\* fn(...args), called with no receiver.  An outcome of kind "invoke" is a
\* function that calls v once with each argument list of calls and returns
\* what the last call returned.
TargetCall(fn, args) ==
  CASE fn.t # "fn" -> [kind |-> "throw", v |-> TypeErr]   \* fn is not a function
    [] fn.name = "add" ->
         IF Len(args) >= 2 /\ args[1].t = "num" /\ args[2].t = "num"
         THEN [kind |-> "return", v |-> Num(args[1].n + args[2].n)]
         ELSE [kind |-> "return", v |-> NaN]
    [] fn.name = "boom" -> [kind |-> "throw", v |-> ErrorObj(S1("bad"))]
    [] fn.name = "fail" -> [kind |-> "throw", v |-> Undef]
    [] fn.name = "slow" -> [kind |-> "pending", v |-> Undef]
    [] fn.name = "cb" ->
         IF Len(args) >= 1 /\ args[1].t = "num"
         THEN [kind |-> "return", v |-> Num(args[1].n * 2)]
         ELSE [kind |-> "return", v |-> NaN]
    [] fn.name = "both" ->
         IF Len(args) >= 1 /\ TypeOf(args[1]) = "function"
         THEN [kind |-> "invoke", v |-> args[1], calls |-> <<<<Num(1)>>, <<Num(2)>>>>]
         ELSE [kind |-> "throw", v |-> TypeErr]
    [] fn.name = "list" -> [kind |-> "return", v |-> Arr(<<Fn("cb")>>)]
    [] fn.name = "make" ->
         [kind |-> "return", v |-> Obj("Object", (Key("run") :> Fn("cb")))]
    [] OTHER -> [kind |-> "throw", v |-> TypeErr]   \* a class called without new

\* new c(...args)
TargetConstruct(c, args) ==
  IF c.t = "fn" /\ c.name = "Counter"
  THEN [kind |-> "return",
        v |-> Obj("Counter", (Key("n") :> (IF Len(args) >= 1 THEN args[1] ELSE Undef)))]
  ELSE [kind |-> "throw", v |-> ErrorObj(Str(<<"c is ", "not a constructor">>))]

\* What the promise returned by slow() may settle with.
SlowOutcomes ==
  { [kind |-> "return", v |-> Num(1)],
    [kind |-> "throw", v |-> ErrorObj(S1("late"))] }

----------------------------------------------------------------------------
(* One realm's state while a step runs: the realm's variables, the         *)
(* messages it has posted in this step (out), the record of the listener   *)
(* run in progress (run), and ok, which turns FALSE when the step needs    *)
(* more identifiers than MaxIds allows (the step is then not taken).       *)

EmptyRun(r, kind, li, path, data) ==
  [realm |-> r, kind |-> kind, li |-> li, path |-> path, data |-> data, handled |-> FALSE,
   steps |-> 0, reads |-> 0, invoked |-> <<>>, invokedWith |-> <<>>, posted |-> <<>>,
   postedOn |-> <<>>, made |-> <<>>, resolved |-> <<>>, caught |-> FALSE, threw |-> Undef,
   sendFailed |-> FALSE, escaped |-> FALSE, via |-> <<>>, encoded |-> <<>>]

\* {channel: t1, payload: {channel: t2, payload: ... body}}
RECURSIVE Envelope(_, _)
Envelope(path, body) ==
  IF path = <<>> THEN body
  ELSE [channel |-> Head(path), payload |-> Envelope(Tail(path), body)]

\* ep.postMessage(body), ep being the base endpoint (path <<>>) or the
\* endpoint createChannel derived along path.  While the transport refuses
\* posts (broken) the call throws and nothing is sent.
postMessage(st, path, body) ==
  IF st.broken THEN st
  ELSE [st EXCEPT !.out = Append(@, [m |-> Envelope(path, body), via |-> path]),
                  !.run.posted = Append(@, body),
                  !.run.postedOn = Append(@, path)]

\* getId starting over from 1 past the limit instead of switching to
\* random identifiers.
getIdWraps(st) ==
  IF st.uid > MAX_SAFE_INTEGER - 1000
  THEN [st |-> [st EXCEPT !.uid = 1, !.ok = @ /\ Len(st.proms) < MaxIds], id |-> Num(1)]
  ELSE [st |-> [st EXCEPT !.uid = @ + 1, !.ok = @ /\ Len(st.proms) < MaxIds],
        id |-> Num(st.uid + 1)]

\* getId returning the counter before it is incremented: the first
\* identifier is 0.
getIdFromZero(st) ==
  IF st.uid > MAX_SAFE_INTEGER - 1000
  THEN [st |-> [st EXCEPT !.uuids = @ + 1, !.ok = @ /\ st.uid + st.uuids < MaxIds],
        id |-> Uuid(st.realm, st.uuids + 1)]
  ELSE [st |-> [st EXCEPT !.uid = @ + 1, !.ok = @ /\ st.uid + st.uuids < MaxIds],
        id |-> Num(st.uid)]

\* getId without "uniqueInRealmId++".
getIdNoIncrement(st) ==
  IF st.uid > MAX_SAFE_INTEGER - 1000
  THEN [st |-> [st EXCEPT !.uuids = @ + 1, !.ok = @ /\ st.uid + st.uuids < MaxIds],
        id |-> Uuid(st.realm, st.uuids + 1)]
  ELSE [st |-> st, id |-> Num(st.uid + 1)]

\* crypto.randomUUID() is taken to return a value it has not returned before.
getId(st) ==
  IF st.uid > MAX_SAFE_INTEGER - 1000
  THEN [st |-> [st EXCEPT !.uuids = @ + 1, !.ok = @ /\ st.uid + st.uuids < MaxIds],
        id |-> Uuid(st.realm, st.uuids + 1)]
  ELSE [st |-> [st EXCEPT !.uid = @ + 1, !.ok = @ /\ st.uid + st.uuids < MaxIds],
        id |-> Num(st.uid + 1)]

\* The WeakSet markedObj: nothing is ever added to it.
markedObj == {}

\* endpoint.addEventListener('message', listener), the listener being the
\* one wrap or expose installs on the endpoint derived along path.
addListener(st, kind, path, obj) ==
  [st EXCEPT !.lis = Append(@, [kind |-> kind, path |-> path, obj |-> obj]),
             !.run.made = Append(@, [kind |-> kind, path |-> path])]

\* The decision of wrapArg, lines 91-102.
\* Object.values(data).some(v => typeof v === 'function')
someValueIsFunction(data) ==
  ~IsRec(data) /\ data.t = "obj" /\ \E k \in DOMAIN data.own : TypeOf(data.own[k]) = "function"

\* mustWrap keeping the flag passed in for objects.
mustWrapKeepsFlag(data, wrap) ==
  IF TypeOf(data) = "function" THEN TRUE
  ELSE IF Truthy(data) /\ TypeOf(data) = "object" /\ ~IsArray(data)
       THEN wrap \/ someValueIsFunction(data)
       ELSE IF data \in markedObj THEN TRUE ELSE wrap

\* mustWrap without the inspection of an object's values.
mustWrapFunctionsOnly(data, wrap) ==
  IF TypeOf(data) = "function" THEN TRUE
  ELSE IF data \in markedObj THEN TRUE ELSE wrap

\* The decision of wrapArg, lines 91-102: for an object that is no array the
\* flag passed in is overwritten.
mustWrap(data, wrap) ==
  IF TypeOf(data) = "function" THEN TRUE
  ELSE IF Truthy(data) /\ TypeOf(data) = "object" /\ ~IsArray(data)
       THEN someValueIsFunction(data)
       ELSE IF data \in markedObj THEN TRUE ELSE wrap

\* What one wrapArg did: the value, its encoding, the number of ids it
\* allocated and the exposures it installed.
Encoded(st0, st1, data, d) ==
  [st1 EXCEPT !.run.encoded =
     Append(@, [v |-> data, d |-> d,
                ids |-> (st1.uid + st1.uuids) - (st0.uid + st0.uuids),
                exposed |-> SubSeq(st1.lis, Len(st0.lis) + 1, Len(st1.lis))])]

wrapArg(st, data, path, wrap) ==
  IF mustWrap(data, wrap)
  THEN LET g == getId(st) IN
         [st |-> Encoded(st, addListener(g.st, "expose", Append(path, g.id), data), data,
                         [type |-> S1("wraped"), id |-> g.id]),
          d |-> [type |-> S1("wraped"), id |-> g.id]]
  ELSE [st |-> Encoded(st, st, data, [type |-> S1("any"), data |-> data]),
        d |-> [type |-> S1("any"), data |-> data]]

RECURSIVE wrapArgs(_, _, _)
wrapArgs(st, args, path) ==
  IF args = <<>> THEN [st |-> st, ds |-> <<>>]
  ELSE LET h == wrapArg(st, Head(args), path, FALSE)
           t == wrapArgs(h.st, Tail(args), path)
       IN [st |-> t.st, ds |-> <<h.d>> \o t.ds]

\* unwrapArg returning wrap(ep) instead of wrap(createChannel(ep, id)).
unwrapArgNoChannel(st, data, path) ==
  IF ~IsRec(data) /\ data.t \in {"undefined", "null"}
  THEN [st |-> st, thrown |-> TRUE, v |-> TypeErr]
  ELSE IF Get(data, "type") = S1("any")
       THEN [st |-> st, thrown |-> FALSE, v |-> Get(data, "data")]
       ELSE IF Get(data, "type") = S1("wraped")
            THEN [st |-> addListener(st, "wrap", path, Undef),
                  thrown |-> FALSE,
                  v |-> ProxyVal(path, <<>>)]
            ELSE [st |-> st, thrown |-> FALSE, v |-> Undef]

\* unwrapArg: reading data.type of undefined or null throws a TypeError.
unwrapArg(st, data, path) ==
  IF ~IsRec(data) /\ data.t \in {"undefined", "null"}
  THEN [st |-> st, thrown |-> TRUE, v |-> TypeErr]
  ELSE IF Get(data, "type") = S1("any")
       THEN [st |-> st, thrown |-> FALSE, v |-> Get(data, "data")]
       ELSE IF Get(data, "type") = S1("wraped")
            THEN [st |-> addListener(st, "wrap", Append(path, Get(data, "id")), Undef),
                  thrown |-> FALSE,
                  v |-> ProxyVal(Append(path, Get(data, "id")), <<>>)]
            ELSE [st |-> st, thrown |-> FALSE, v |-> Undef]

RECURSIVE unwrapArgs(_, _, _)
unwrapArgs(st, ds, path) ==
  IF ds = <<>> THEN [st |-> st, thrown |-> FALSE, vs |-> <<>>]
  ELSE LET h == unwrapArg(st, Head(ds), path) IN
         IF h.thrown THEN [st |-> h.st, thrown |-> TRUE, vs |-> <<>>]
         ELSE LET t == unwrapArgs(h.st, Tail(ds), path) IN
                [st |-> t.st, thrown |-> t.thrown, vs |-> <<h.v>> \o t.vs]

----------------------------------------------------------------------------
(* Promises.  A promise is pending, locked (resolved with a thenable it    *)
(* now follows) or fulfilled.  calls counts the calls of its res function  *)
(* made by a wrap handler, by lists the ids of the messages that made them.*)
(* subs are the reactions registered with then: another promise's resolve  *)
(* function, or a dispatcher waiting at "await fn(...args)".               *)

\* origin: "user" for an operation of the caller, "job" for a call made by
\* a promise job or a dispatcher; type, chain and args: the request it stands
\* for.
\* table: the ids the pending-request table held when the promise was made.
NewPromise(id, info, table) ==
  [id |-> id, state |-> "pending", value |-> Undef, calls |-> 0, by |-> <<>>,
   subs |-> info.subs, rejs |-> info.rejs, origin |-> info.origin, type |-> info.type,
   chain |-> info.chain, args |-> info.args, table |-> table]

\* createPromise(id): promiseMap.set(id, {res, rej})
createPromise(st, id, info) ==
  [st EXCEPT !.proms = Append(@, NewPromise(id, info, DOMAIN st.pmap)),
             !.pmap = (id :> (Len(st.proms) + 1)) @@ @]

\* The apply trap without its branch for 'then': every invocation is a call.
applyTrapNoAwait(st, path, keyChain, args, origin) ==
  LET g == getId(st)
      a == IF keyChain # <<>> /\ keyChain[Len(keyChain)] = S1("then") THEN <<>> ELSE args
      p == createPromise(g.st, g.id, [origin |-> origin, subs |-> <<>>, rejs |-> <<>>,
                                      type |-> "call", chain |-> keyChain, args |-> a])
      w == wrapArgs(p, a, path)
  IN postMessage(w.st, path,
                 [id |-> g.id, type |-> S1("call"), keyChain |-> Arr(keyChain),
                  args |-> Arr(w.ds)])

\* The apply trap of the proxy with key chain keyChain on the endpoint
\* derived along path, invoked with args.  When the chain ends in 'then'
\* the arguments are the two reactions handed to p.then(...args).
applyTrap(st, path, keyChain, args, origin) ==
  IF keyChain # <<>> /\ keyChain[Len(keyChain)] = S1("then")
  THEN LET g == getId(st)
           p == createPromise(g.st, g.id, [origin |-> origin, subs |-> SubSeq(args, 1, 1),
                                           rejs |-> SubSeq(args, 2, 2), type |-> "await",
                                           chain |-> SubSeq(keyChain, 1, Len(keyChain) - 1),
                                           args |-> <<>>])
       IN postMessage(p, path,
                      [id |-> g.id, type |-> S1("await"),
                       keyChain |-> Arr(SubSeq(keyChain, 1, Len(keyChain) - 1))])
  ELSE LET g == getId(st)
           p == createPromise(g.st, g.id, [origin |-> origin, subs |-> <<>>, rejs |-> <<>>,
                                           type |-> "call", chain |-> keyChain, args |-> args])
           w == wrapArgs(p, args, path)
       IN postMessage(w.st, path,
                      [id |-> g.id, type |-> S1("call"), keyChain |-> Arr(keyChain),
                       args |-> Arr(w.ds)])

\* The construct trap.
constructTrap(st, path, keyChain, args, origin) ==
  LET g == getId(st)
      p == createPromise(g.st, g.id, [origin |-> origin, subs |-> <<>>, rejs |-> <<>>,
                                      type |-> "construct",
                                      chain |-> keyChain, args |-> args])
      w == wrapArgs(p, args, path)
  IN postMessage(w.st, path,
                 [id |-> g.id, type |-> S1("construct"), keyChain |-> Arr(keyChain),
                  args |-> Arr(w.ds)])

\* A reply that the transport took: reqs counts it.
send(st, ri, path, body) ==
  LET p == postMessage(st, path, body) IN
    IF body.type = S1("response")
    THEN [p EXCEPT !.reqs[ri].nresp = @ + 1, !.reqs[ri].done = TRUE]
    ELSE [p EXCEPT !.reqs[ri].nerr = @ + 1, !.reqs[ri].done = TRUE]

\* What ep.postMessage throws when the transport refuses the post.
PostError == ErrorObj(Str(<<"post failed">>))

\* The catch block of the dispatcher, lines 254-266.  Reading error.message
\* of undefined or null throws a TypeError inside the inner try, and so does
\* a post the transport refuses: the inner catch logs it and nothing is
\* posted.
catchBlock(st, ri, path, d, error) ==
  LET s1 == [st EXCEPT !.run.caught = TRUE, !.run.threw = error] IN
    IF error.t \in {"undefined", "null"} \/ st.broken
    THEN [s1 EXCEPT !.run.sendFailed = TRUE, !.reqs[ri].done = TRUE]
    ELSE send(s1, ri, path,
              [id |-> Get(d, "id"), type |-> S1("error"),
               error |-> IF error.t = "error" THEN error.message ELSE Undef])

\* The response of a dispatcher run, posted inside the try: a post that
\* throws lands in the catch block.
reply(st, ri, path, body) ==
  IF st.broken THEN catchBlock(st, ri, path, body, PostError)
  ELSE send(st, ri, path, body)

\* What follows "await fn(...args)" in the call branch, lines 236-240.
respond(st, cont, response) ==
  LET w == wrapArg(st, response, cont.path, FALSE) IN
    reply(w.st, cont.ri, cont.path,
          [id |-> Get(cont.d, "id"), type |-> S1("response"), data |-> w.d])

DispatchCont(ri, path, d) == [k |-> "dispatch", ri |-> ri, path |-> path, d |-> d, pi |-> 0]
PromiseCont(pi) == [k |-> "promise", ri |-> 0, path |-> <<>>, d |-> Undef, pi |-> pi]
\* The caller's own code waiting at "await proxy.k1...kn".
UserCont == [k |-> "user", ri |-> 0, path |-> <<>>, d |-> Undef, pi |-> 0]
\* The rejection side of reaction c: the second argument of then.
Rej(c) == [k |-> "rejection", ri |-> 0, path |-> <<>>, d |-> c, pi |-> 0]

RECURSIVE resolvePromise(_, _, _), settleAll(_, _, _)

\* The res function of promise pi called with v.  A proxy is a thenable:
\* its get trap answers 'then' with a callable proxy, which the promise
\* job then calls with the promise's own resolve functions.
resolvePromise(st, pi, v) ==
  IF st.proms[pi].state # "pending" THEN st
  ELSE IF ~IsRec(v) /\ v.t = "proxy"
       THEN applyTrap([st EXCEPT !.proms[pi].state = "locked"], v.path,
                      Append(v.chain, S1("then")),
                      <<PromiseCont(pi), Rej(PromiseCont(pi))>>, "job")
       ELSE settleAll([st EXCEPT !.proms[pi].state = "fulfilled", !.proms[pi].value = v],
                      st.proms[pi].subs, v)

settleAll(st, subs, v) ==
  IF subs = <<>> THEN st
  ELSE LET c == Head(subs)
           s1 == IF c.k = "promise" THEN resolvePromise(st, c.pi, v)
                 ELSE IF c.k = "user" THEN st
                 ELSE respond(st, c, v)
       IN settleAll(s1, Tail(subs), v)

\* await v, then cont.
awaitThen(st, v, cont) ==
  IF ~IsRec(v) /\ v.t = "proxy"
  THEN applyTrap(st, v.path, Append(v.chain, S1("then")), <<cont, Rej(cont)>>, "job")
  ELSE IF ~IsRec(v) /\ v.t = "promise"
       THEN IF st.proms[v.pi].state = "fulfilled"
            THEN settleAll(st, <<cont>>, st.proms[v.pi].value)
            ELSE [st EXCEPT !.proms[v.pi].subs = Append(@, cont),
                            !.proms[v.pi].rejs = Append(@, Rej(cont))]
       ELSE settleAll(st, <<cont>>, v)

----------------------------------------------------------------------------
(* The client handler installed by wrap, lines 136-154.                    *)

\* wrapHandler without "promiseMap.delete(d.id)".
wrapHandlerKeepsEntry(st0, path, d) ==
  IF ~(Truthy(d) /\ ~Truthy(Get(d, "channel"))) THEN st0
  ELSE LET st == [st0 EXCEPT !.run.handled = TRUE] IN
    IF assertValidRPCResponse(d).thrown THEN [st EXCEPT !.run.caught = TRUE]
    ELSE LET u == unwrapArg(st, Get(d, "data"), path) IN
      IF u.thrown THEN [u.st EXCEPT !.run.caught = TRUE]
      ELSE IF Get(d, "id") \notin DOMAIN u.st.pmap THEN u.st
           ELSE LET id == Get(d, "id")
                    pi == u.st.pmap[id]
                    called == [u.st EXCEPT !.proms[pi].calls = @ + 1,
                                           !.proms[pi].by = Append(@, id),
                                           !.run.resolved = Append(@, pi)]
                IN resolvePromise(called, pi, u.v)

\* wrapHandler deleting the entry only after the continuations of the
\* promise have run.
wrapHandlerDeletesLate(st0, path, d) ==
  IF ~(Truthy(d) /\ ~Truthy(Get(d, "channel"))) THEN st0
  ELSE LET st == [st0 EXCEPT !.run.handled = TRUE] IN
    IF assertValidRPCResponse(d).thrown THEN [st EXCEPT !.run.caught = TRUE]
    ELSE LET u == unwrapArg(st, Get(d, "data"), path) IN
      IF u.thrown THEN [u.st EXCEPT !.run.caught = TRUE]
      ELSE IF Get(d, "id") \notin DOMAIN u.st.pmap THEN u.st
           ELSE LET id == Get(d, "id")
                    pi == u.st.pmap[id]
                    called == [u.st EXCEPT !.proms[pi].calls = @ + 1,
                                           !.proms[pi].by = Append(@, id),
                                           !.run.resolved = Append(@, pi)]
                IN [resolvePromise(called, pi, u.v) EXCEPT
                      !.pmap = [k \in DOMAIN @ \ {id} |-> @[k]]]

\* wrapHandler settling the oldest pending request instead of the one the
\* response names.
wrapHandlerOldest(st0, path, d) ==
  IF ~(Truthy(d) /\ ~Truthy(Get(d, "channel"))) THEN st0
  ELSE LET st == [st0 EXCEPT !.run.handled = TRUE] IN
    IF assertValidRPCResponse(d).thrown THEN [st EXCEPT !.run.caught = TRUE]
    ELSE LET u == unwrapArg(st, Get(d, "data"), path) IN
      IF u.thrown THEN [u.st EXCEPT !.run.caught = TRUE]
      ELSE IF DOMAIN u.st.pmap = {} THEN u.st
           ELSE LET pi == CHOOSE i \in {u.st.pmap[k] : k \in DOMAIN u.st.pmap} :
                             \A k \in DOMAIN u.st.pmap : i <= u.st.pmap[k]
                    id == u.st.proms[pi].id
                    called == [u.st EXCEPT !.proms[pi].calls = @ + 1,
                                           !.proms[pi].by = Append(@, id),
                                           !.run.resolved = Append(@, pi),
                                           !.pmap = [k \in DOMAIN @ \ {id} |-> @[k]]]
                IN resolvePromise(called, pi, u.v)

\* wrapHandler without its try/catch: what the body throws leaves the
\* listener.
wrapHandlerNoTry(st0, path, d) ==
  IF ~(Truthy(d) /\ ~Truthy(Get(d, "channel"))) THEN st0
  ELSE LET st == [st0 EXCEPT !.run.handled = TRUE] IN
    IF assertValidRPCResponse(d).thrown THEN [st EXCEPT !.run.escaped = TRUE]
    ELSE LET u == unwrapArg(st, Get(d, "data"), path) IN
      IF u.thrown THEN [u.st EXCEPT !.run.escaped = TRUE]
      ELSE IF Get(d, "id") \notin DOMAIN u.st.pmap THEN u.st
           ELSE LET id == Get(d, "id")
                    pi == u.st.pmap[id]
                    called == [u.st EXCEPT !.proms[pi].calls = @ + 1,
                                           !.proms[pi].by = Append(@, id),
                                           !.run.resolved = Append(@, pi),
                                           !.pmap = [k \in DOMAIN @ \ {id} |-> @[k]]]
                IN resolvePromise(called, pi, u.v)

wrapHandler(st0, path, d) ==
  IF ~(Truthy(d) /\ ~Truthy(Get(d, "channel"))) THEN st0
  ELSE LET st == [st0 EXCEPT !.run.handled = TRUE] IN
    IF assertValidRPCResponse(d).thrown THEN [st EXCEPT !.run.caught = TRUE]
    ELSE LET u == unwrapArg(st, Get(d, "data"), path) IN
      IF u.thrown THEN [u.st EXCEPT !.run.caught = TRUE]
      ELSE IF Get(d, "id") \notin DOMAIN u.st.pmap THEN u.st
           ELSE LET id == Get(d, "id")
                    pi == u.st.pmap[id]
                    called == [u.st EXCEPT !.proms[pi].calls = @ + 1,
                                           !.proms[pi].by = Append(@, id),
                                           !.run.resolved = Append(@, pi),
                                           !.pmap = [k \in DOMAIN @ \ {id} |-> @[k]]]
                IN resolvePromise(called, pi, u.v)

----------------------------------------------------------------------------
(* The dispatcher installed by expose, lines 199-268.                      *)

\* currentObject[p]: an own property, one found on the prototype chain, or
\* undefined.
GetProp(obj, p) ==
  CASE obj.t = "obj" /\ p.s \in DOMAIN obj.own -> obj.own[p.s]
    [] obj.t = "obj" /\ p.s \in Inherited(obj.proto) -> Fn(p.s[1])
    [] obj.t = "arr" /\ p = S1("length") -> Num(Len(obj.items))
    [] obj.t = "fn" /\ p = S1("name") -> S1(obj.name)
    [] obj.t = "fn" /\ p = S1("length") -> Num(IF obj.name \in {"add", "cb"} THEN 2 ELSE 1)
    [] obj.t = "fn" /\ obj.name = "Counter" /\ p = S1("zero") -> Num(0)
    [] OTHER -> Undef

\* The loop of getKeyChain: steps counts the keys it came to, reads the
\* properties it read.
RECURSIVE walk(_, _, _)
walk(currentObject, keys, n) ==
  IF keys = <<>>
  THEN [thrown |-> FALSE, err |-> Undef, val |-> currentObject, steps |-> n, reads |-> n]
  ELSE LET a == assertPropertyExists(currentObject, Head(keys)) IN
         IF a.thrown
         THEN [thrown |-> TRUE, err |-> a.err, val |-> Undef, steps |-> n + 1, reads |-> n]
         ELSE walk(GetProp(currentObject, Head(keys)), Tail(keys), n + 1)

getKeyChain(obj, keyChain) ==
  IF assertValidKeyChain(keyChain).thrown
  THEN [thrown |-> TRUE, err |-> assertValidKeyChain(keyChain).err, val |-> Undef,
        steps |-> 0, reads |-> 0]
  ELSE walk(obj, keyChain.items, 0)

\* The await branch, lines 221-228.
awaitBranch(st, ri, path, obj, d) ==
  LET o == getKeyChain(obj, Get(d, "keyChain"))
      s1 == [st EXCEPT !.run.steps = o.steps, !.run.reads = o.reads]
  IN IF o.thrown THEN catchBlock(s1, ri, path, d, o.err)
     ELSE LET w == wrapArg(s1, o.val, path, FALSE) IN
            reply(w.st, ri, path,
                  [id |-> Get(d, "id"), type |-> S1("response"), data |-> w.d])

\* proxy(...a) for each a of calls, in order: what a target that calls its
\* function argument does.
RECURSIVE invokeAll(_, _, _)
invokeAll(st, proxy, calls) ==
  IF calls = <<>> THEN st
  ELSE invokeAll(applyTrap(st, proxy.path, proxy.chain, Head(calls), "job"),
                 proxy, Tail(calls))

\* The call branch up to "fn(...args)", lines 230-234: what the statements
\* before the call throw, if any.  d.args.map and fn(...args) throw a
\* TypeError when d.args has no map and when fn is not callable.
callThrows(fn, d, args) ==
  CASE fn.thrown -> Throw(fn.err)
    [] assertIsFunction(fn.val, "call target").thrown ->
         assertIsFunction(fn.val, "call target")
    [] ~IsArray(Get(d, "args")) -> Throw(TypeErr)
    [] args.thrown -> Throw(TypeErr)
    [] TypeOf(fn.val) # "function" -> Throw(ErrorObj(Str(<<"fn is ", "not a function">>)))
    [] OTHER -> NoThrow

\* The promise the last call of a proxy in st returned.
lastPromise(st) == [st |-> st, kind |-> "return", v |-> PromiseVal(Len(st.proms))]

\* fn(...args) in the dispatcher run st: the state after the call and its
\* outcome.  A proxy as target makes one request; a target that calls its
\* function argument makes one for each call, and returns the promise of
\* the last.
invokeTarget(st, fn, args) ==
  LET s2 == [st EXCEPT !.run.invoked = Append(@, fn),
                       !.run.invokedWith = Append(@, args)]
      t == TargetCall(fn, args)
  IN IF fn.t = "proxy" \/ t.kind = "invoke"
     THEN lastPromise(invokeAll(s2, IF fn.t = "proxy" THEN fn ELSE t.v,
                                IF fn.t = "proxy" THEN <<args>> ELSE t.calls))
     ELSE [st |-> s2, kind |-> t.kind, v |-> t.v]

\* callFinish without the await: a promise the target returned is answered
\* at once, unsettled.
callFinishNoAwait(r, cont, ri, path, d) ==
  CASE r.kind = "return" -> awaitThen(r.st, r.v, cont)
    [] r.kind = "throw" -> catchBlock(r.st, ri, path, d, r.v)
    [] OTHER -> respond(r.st, cont, Undef)

\* "const response = await fn(...args)" and what follows, lines 234-240,
\* or the catch block: r is the outcome of the statements before.
callFinish(r, cont, ri, path, d) ==
  CASE r.kind = "return" -> awaitThen(r.st, r.v, cont)
    [] r.kind = "throw" -> catchBlock(r.st, ri, path, d, r.v)
    [] OTHER -> [r.st EXCEPT !.susp = Append(@, cont)]

\* The statements of the call branch before the await: args are the
\* decoded arguments.
callOutcome(fn, d, args) ==
  IF callThrows(fn, d, args).thrown
  THEN [st |-> args.st, kind |-> "throw", v |-> callThrows(fn, d, args).err]
  ELSE invokeTarget(args.st, fn.val, args.vs)

\* d.args.map(a => unwrapArg(a, ep)), reached when nothing before it threw.
callArgs(st, path, d, fn) ==
  IF ~fn.thrown /\ ~assertIsFunction(fn.val, "call target").thrown
     /\ IsArray(Get(d, "args"))
  THEN unwrapArgs([st EXCEPT !.run.steps = fn.steps, !.run.reads = fn.reads],
                  Get(d, "args").items, path)
  ELSE [st |-> [st EXCEPT !.run.steps = fn.steps, !.run.reads = fn.reads],
        thrown |-> FALSE, vs |-> <<>>]

callWalked(st, ri, path, d, fn) ==
  callFinish(callOutcome(fn, d, callArgs(st, path, d, fn)),
             DispatchCont(ri, path, d), ri, path, d)

\* The call branch, lines 229-240.
callBranch(st, ri, path, obj, d) ==
  callWalked(st, ri, path, d, getKeyChain(obj, Get(d, "keyChain")))

\* The construct branch up to "new c(...args)", lines 242-245: what the
\* statements before it throw, if any.
constructThrows(c, args) ==
  CASE c.thrown -> Throw(c.err)
    [] assertIsFunction(c.val, "constructor target").thrown ->
         assertIsFunction(c.val, "constructor target")
    [] args.thrown -> Throw(TypeErr)
    [] TypeOf(c.val) # "function" -> Throw(ErrorObj(Str(<<"c is ", "not a constructor">>)))
    [] OTHER -> NoThrow

\* new c(...args) in the dispatcher run st.
instantiate(st, c, args) ==
  LET s2 == [st EXCEPT !.run.invoked = Append(@, c),
                       !.run.invokedWith = Append(@, args)]
      t == TargetConstruct(c, args)
  IN IF c.t = "proxy"
     THEN lastPromise(constructTrap(s2, c.path, c.chain, args, "job"))
     ELSE [st |-> s2, kind |-> t.kind, v |-> t.v]

\* The response of the construct branch, lines 248-252: w is the encoded
\* instance.
constructReply(w, ri, path, d) ==
  reply(w.st, ri, path, [id |-> Get(d, "id"), type |-> S1("response"), data |-> w.d])

\* What follows "new c(...args)", or the catch block: i is the outcome of
\* the statements before.
constructFinish(i, ri, path, d) ==
  IF i.kind = "throw" THEN catchBlock(i.st, ri, path, d, i.v)
  ELSE constructReply(wrapArg(i.st, i.v, path, TRUE), ri, path, d)

constructOutcome(c, args) ==
  IF constructThrows(c, args).thrown
  THEN [st |-> args.st, kind |-> "throw", v |-> constructThrows(c, args).err]
  ELSE instantiate(args.st, c.val, args.vs)

\* Array.isArray(d.args) ? d.args.map(a => unwrapArg(a, ep)) : []
constructArgs(st, path, d, c) ==
  IF ~c.thrown /\ ~assertIsFunction(c.val, "constructor target").thrown
     /\ IsArray(Get(d, "args"))
  THEN unwrapArgs([st EXCEPT !.run.steps = c.steps, !.run.reads = c.reads],
                  Get(d, "args").items, path)
  ELSE [st |-> [st EXCEPT !.run.steps = c.steps, !.run.reads = c.reads],
        thrown |-> FALSE, vs |-> <<>>]

constructWalked(st, ri, path, d, c) ==
  constructFinish(constructOutcome(c, constructArgs(st, path, d, c)), ri, path, d)

\* The construct branch, lines 241-253.
constructBranch(st, ri, path, obj, d) ==
  constructWalked(st, ri, path, d, getKeyChain(obj, Get(d, "keyChain")))

exposeHandler(st0, path, obj, d) ==
  IF ~(Truthy(d) /\ ~Truthy(Get(d, "channel"))) THEN st0
  ELSE LET ri == Len(st0.reqs) + 1
           st == [st0 EXCEPT !.run.handled = TRUE,
                            !.reqs = Append(@, [d |-> d, path |-> path, done |-> FALSE,
                                                nresp |-> 0, nerr |-> 0])]
       IN IF assertValidRPCCall(d).thrown
          THEN catchBlock(st, ri, path, d, assertValidRPCCall(d).err)
          ELSE CASE Get(d, "type") = S1("await") -> awaitBranch(st, ri, path, obj, d)
                 [] Get(d, "type") = S1("call") -> callBranch(st, ri, path, obj, d)
                 [] Get(d, "type") = S1("construct") -> constructBranch(st, ri, path, obj, d)
                 [] OTHER -> [st EXCEPT !.reqs[ri].done = TRUE]

----------------------------------------------------------------------------
(* The multiplexer, endpoint.ts 52-85, and the delivery of one event.      *)

\* channelListener comparing the tag with == instead of ===.
channelListenerLoose(data, channelName) ==
  [ok |-> /\ Truthy(data)
          /\ TypeOf(data) = "object"
          /\ \/ Get(data, "channel") = channelName
             \/ {Get(data, "channel"), channelName} = {Num(1), S1("1")},
   data |-> Get(data, "payload")]

\* channelListener handing on event.data instead of event.data.payload.
channelListenerWhole(data, channelName) ==
  [ok |-> Truthy(data) /\ TypeOf(data) = "object" /\ Get(data, "channel") = channelName,
   data |-> data]

\* The listener createChannel(endpoint, channelName) puts on endpoint.
channelListener(data, channelName) ==
  [ok |-> Truthy(data) /\ TypeOf(data) = "object" /\ Get(data, "channel") = channelName,
   data |-> Get(data, "payload")]

\* What the listeners of the endpoint derived along path are handed.
RECURSIVE Surface(_, _)
Surface(data, path) ==
  IF path = <<>> THEN [ok |-> TRUE, data |-> data]
  ELSE LET c == channelListener(data, Head(path)) IN
         IF c.ok THEN Surface(c.data, Tail(path)) ELSE [ok |-> FALSE, data |-> Undef]

\* listenerA posting the event's data on both endpoints.
listenerAEcho(st, data) ==
  [st EXCEPT !.run.handled = TRUE,
             !.run.posted = <<data, data>>,
             !.run.postedOn = <<<<Peer(st.realm)>>, <<st.realm>>>>]

\* listenerA and listenerB of connectEndpoints: the listener on one
\* endpoint posts event.data on the other endpoint, whose far side is not
\* part of the model: the post is kept in the record of the run.
listenerA(st, data) ==
  [st EXCEPT !.run.handled = TRUE,
             !.run.posted = <<data>>,
             !.run.postedOn = <<<<Peer(st.realm)>>>>]

\* The run of a listener is over: its record joins those of the step.
endRun(st) == [st EXCEPT !.runs = Append(@, st.run)]

\* The listeners i..n of the base endpoint, run in the order they were added.
\* via, kept in the record of each run, is the endpoint the sender posted on.
RECURSIVE dispatchEvent(_, _, _, _, _)
dispatchEvent(st, data, via, i, n) ==
  IF i > n THEN st
  ELSE LET l == st.lis[i]
           s == Surface(data, l.path)
       IN IF ~s.ok \/ l.kind = "removed" THEN dispatchEvent(st, data, via, i + 1, n)
          ELSE LET s1 == [st EXCEPT !.run = [EmptyRun(st.realm, l.kind, i, l.path, s.data)
                                              EXCEPT !.via = via]]
                   s2 == CASE l.kind = "wrap" -> wrapHandler(s1, l.path, s.data)
                           [] l.kind = "expose" -> exposeHandler(s1, l.path, l.obj, s.data)
                           [] l.kind = "forward" -> listenerA(s1, s.data)
                           [] OTHER -> [s1 EXCEPT !.run.handled = TRUE]
               IN dispatchEvent(endRun(s2), data, via, i + 1, n)

----------------------------------------------------------------------------
(* The steps.                                                              *)

EmptyMap == [k \in {} |-> 0]

Pack(r, kind, path, data) ==
  [realm |-> r, uid |-> uniqueInRealmId[r], uuids |-> uuidsIssued[r],
   pmap |-> promiseMap[r], proms |-> promises[r], lis |-> listeners[r],
   susp |-> suspended[r], reqs |-> reqs[r], out |-> <<>>,
   run |-> EmptyRun(r, kind, 0, path, data), runs |-> <<>>, ok |-> TRUE,
   broken |-> FALSE, heap |-> proxies]

\* The realm's variables after the step; q is the queue the step leaves.
Commit(r, st, q) ==
  /\ st.ok
  /\ uniqueInRealmId' = [uniqueInRealmId EXCEPT ![r] = st.uid]
  /\ uuidsIssued' = [uuidsIssued EXCEPT ![r] = st.uuids]
  /\ promiseMap' = [promiseMap EXCEPT ![r] = st.pmap]
  /\ promises' = [promises EXCEPT ![r] = st.proms]
  /\ listeners' = [listeners EXCEPT ![r] = st.lis]
  /\ suspended' = [suspended EXCEPT ![r] = st.susp]
  /\ reqs' = [reqs EXCEPT ![r] = st.reqs]
  /\ queue' = [q EXCEPT ![Peer(r)] = @ \o st.out]
  /\ runs' = st.runs
  /\ proxies' = st.heap

\* A proxy made by createProxy(keyChain): its key chain and its own getters
\* map from property key to the proxy (an index in the heap) handed out.
NewProxy(keyChain) == [keyChain |-> keyChain, getters |-> EmptyMap]

\* mapHelper(m, key, data) where o is what data() would make.
mapHelperNoSet(m, key, o) == [m |-> m, v |-> o, made |-> TRUE]

mapHelper(m, key, o) ==
  IF key \in DOMAIN m THEN [m |-> m, v |-> m[key], made |-> FALSE]
  ELSE [m |-> (key :> o) @@ m, v |-> o, made |-> TRUE]

\* The get trap of proxy i for property p; the run record keeps what the
\* access returned and whether the key had been accessed on i before.
getTrapEager(st, i, p) ==
  LET g == getId(st)
  IN postMessage([g.st EXCEPT !.run.data = [proxy |-> i, key |-> p, result |-> Null,
                                              before |-> FALSE]],
                 <<>>, [id |-> g.id, type |-> S1("await"), keyChain |-> Arr(<<p>>)])

getTrap(st, i, p) ==
  IF p.t = "symbol"
  THEN [st EXCEPT !.run.data = [proxy |-> i, key |-> p, result |-> Null, before |-> FALSE]]
  ELSE LET h == mapHelper(st.heap[i].getters, p, Len(st.heap) + 1)
       IN [st EXCEPT !.heap = IF h.made
                               THEN Append([@ EXCEPT ![i].getters = h.m],
                                           NewProxy(Append(st.heap[i].keyChain, p)))
                               ELSE @,
                     !.run.data = [proxy |-> i, key |-> p, result |-> h.v,
                                   before |-> p \in DOMAIN st.heap[i].getters]]

\* What the caller does with the root proxy wrap(E).
UserOps ==
  { [kind |-> "apply", chain |-> <<S1("add")>>, args |-> <<Num(2), Num(3)>>],
    [kind |-> "apply", chain |-> <<S1("a"), S1("b"), S1("then")>>, args |-> <<>>],
    [kind |-> "apply", chain |-> <<S1("then")>>, args |-> <<>>],
    [kind |-> "apply", chain |-> <<S1("boom")>>, args |-> <<>>],
    [kind |-> "apply", chain |-> <<S1("fail")>>, args |-> <<>>],
    [kind |-> "apply", chain |-> <<S1("slow")>>, args |-> <<>>],
    [kind |-> "construct", chain |-> <<S1("Counter")>>, args |-> <<Num(10)>>],
    [kind |-> "construct", chain |-> <<S1("Counter")>>, args |-> <<Fn("cb")>>] }

\* The arguments of the invocation: "await proxy.k1...kn" reads the
\* property then and invokes it with the two reactions of the await.
opArgs(op) ==
  IF op.kind = "apply" /\ op.chain # <<>> /\ op.chain[Len(op.chain)] = S1("then")
  THEN <<UserCont, Rej(UserCont)>>
  ELSE op.args

\* proxy.k1...kn(...args), new proxy.k1...kn(...args), await proxy.k1...kn
ClientOp(op) ==
  /\ opsDone < MaxOps
  /\ LET st0 == Pack("c", "op", <<>>, op)
         st1 == IF op.kind = "apply"
                THEN applyTrap(st0, <<>>, op.chain, opArgs(op), "user")
                ELSE constructTrap(st0, <<>>, op.chain, op.args, "user")
     IN Commit("c", endRun(st1), queue)
  /\ opsDone' = opsDone + 1
  /\ UNCHANGED <<rawDone, muxDone>>

\* The same operations while the transport refuses every post: the id is
\* allocated and the promise created, then ep.postMessage throws inside the
\* trap, which has no try around it: the exception leaves the trap (for an
\* await it rejects the promise the caller waits for) and the promise made
\* by createPromise is not handed to the caller.
ClientOpFailing(op) ==
  /\ opsDone < MaxOps
  /\ LET st0 == [Pack("c", "op", <<>>, op) EXCEPT !.broken = TRUE]
         st1 == IF op.kind = "apply"
                THEN applyTrap(st0, <<>>, op.chain, opArgs(op), "user")
                ELSE constructTrap(st0, <<>>, op.chain, op.args, "user")
     IN Commit("c", endRun([st1 EXCEPT !.run.sendFailed = TRUE, !.run.threw = PostError,
                                       !.run.escaped = TRUE]), queue)
  /\ opsDone' = opsDone + 1
  /\ UNCHANGED <<rawDone, muxDone>>

\* Messages a peer may post on the base endpoint without going through wrap
\* or expose.
Args23 == Arr(<<[type |-> S1("any"), data |-> Num(2)], [type |-> S1("any"), data |-> Num(3)]>>)

RawMessages(r) ==
  IF r = "s"
  THEN { [id |-> Num(9), type |-> S1("call"),
          keyChain |-> Arr(<<S1("__proto__"), S1("constructor")>>), args |-> Arr(<<>>)],
         [id |-> Num(9), type |-> S1("await"),
          keyChain |-> Arr(<<S1("a"), Str(<<"my", "prototype">>)>>)],
         [id |-> Num(9), type |-> S1("construct"),
          keyChain |-> Arr(<<S1("constructor")>>), args |-> Arr(<<>>)],
         [channel |-> S1("some_channel"), id |-> Num(9), type |-> S1("call"),
          keyChain |-> Arr(<<S1("add")>>), args |-> Args23],
         [channel |-> Num(0), id |-> Num(9), type |-> S1("call"),
          keyChain |-> Arr(<<S1("add")>>), args |-> Args23],
         [channel |-> Str(<<>>),
          payload |-> [id |-> Num(9), type |-> S1("await"), keyChain |-> Arr(<<S1("a")>>)]],
         [channel |-> Num(1),
          payload |-> [id |-> Num(9), type |-> S1("call"), keyChain |-> Arr(<<S1("inc")>>),
                       args |-> Arr(<<>>)]] }
  ELSE { [id |-> Num(1), type |-> S1("response"), data |-> [type |-> S1("any"), data |-> Num(5)]],
         [id |-> Num(2), type |-> S1("response"), data |-> [type |-> S1("any"), data |-> Num(5)]],
         [id |-> Num(1), type |-> S1("error"), error |-> S1("bad")],
         [id |-> Num(1), type |-> S1("response"),
          data |-> [type |-> S1("wraped"), id |-> S1("K")]],
         [channel |-> Num(0), id |-> Num(1), type |-> S1("response"),
          data |-> [type |-> S1("any"), data |-> Num(5)]] }

PeerPost(r, m) ==
  /\ rawDone < MaxRaw
  /\ queue' = [queue EXCEPT ![r] = Append(@, [m |-> m, via |-> <<>>])]
  /\ rawDone' = rawDone + 1
  /\ runs' = <<>>
  /\ UNCHANGED <<uniqueInRealmId, uuidsIssued, promiseMap, promises, listeners,
                 suspended, reqs, opsDone, muxDone, proxies>>

\* One message event on the base endpoint of realm r.
Deliver(r) ==
  /\ queue[r] # <<>>
  /\ Commit(r, dispatchEvent(Pack(r, "none", <<>>, Undef), Head(queue[r]).m,
                             Head(queue[r]).via, 1, Len(listeners[r])),
            [queue EXCEPT ![r] = Tail(@)])
  /\ UNCHANGED <<opsDone, rawDone, muxDone>>

\* One message event on the base endpoint of realm r while the transport
\* refuses every post: ep.postMessage throws.
DeliverFailing(r) ==
  /\ queue[r] # <<>>
  /\ Commit(r, dispatchEvent([Pack(r, "none", <<>>, Undef) EXCEPT !.broken = TRUE],
                             Head(queue[r]).m, Head(queue[r]).via, 1, Len(listeners[r])),
            [queue EXCEPT ![r] = Tail(@)])
  /\ UNCHANGED <<opsDone, rawDone, muxDone>>

\* The promise returned by slow() settles: the dispatcher run waiting for
\* it goes on.
TargetSettles(r, k, o) ==
  /\ k \in 1..Len(suspended[r])
  /\ LET cont == suspended[r][k]
         st0 == [Pack(r, "resume", cont.path, cont.d) EXCEPT
                   !.susp = SubSeq(@, 1, k - 1) \o SubSeq(@, k + 1, Len(@))]
         st1 == IF o.kind = "return" THEN respond(st0, cont, o.v)
                ELSE catchBlock(st0, cont.ri, cont.path, cont.d, o.v)
     IN Commit(r, endRun(st1), queue)
  /\ UNCHANGED <<opsDone, rawDone, muxDone>>

Init ==
  /\ uniqueInRealmId = [r \in Realms |-> 0]
  /\ uuidsIssued = [r \in Realms |-> 0]
  /\ promiseMap = [r \in Realms |-> EmptyMap]
  /\ promises = [r \in Realms |-> <<>>]
  /\ listeners = [r \in Realms |->
                    IF r = "c" THEN <<[kind |-> "wrap", path |-> <<>>, obj |-> Undef]>>
                    ELSE <<[kind |-> "expose", path |-> <<>>, obj |-> Root]>>]
  /\ queue = [r \in Realms |-> <<>>]
  /\ suspended = [r \in Realms |-> <<>>]
  /\ reqs = [r \in Realms |-> <<>>]
  /\ runs = <<>>
  /\ opsDone = 0
  /\ rawDone = 0
  /\ muxDone = 0
  /\ proxies = <<NewProxy(<<>>)>>

Next ==
  \/ \E op \in UserOps : ClientOp(op)
  \/ \E r \in Realms : \E m \in RawMessages(r) : PeerPost(r, m)
  \/ \E r \in Realms : Deliver(r)
  \/ \E r \in Realms : \E k \in 1..MaxOps : \E o \in SlowOutcomes : TargetSettles(r, k, o)

Spec == Init /\ [][Next]_vars

----------------------------------------------------------------------------
(* Narrower environments, for properties that concern one side only.      *)

\* Both peers go through wrap and expose only: no message is posted by hand.
NextCalls ==
  \/ \E op \in UserOps : ClientOp(op)
  \/ \E r \in Realms : Deliver(r)
  \/ \E r \in Realms : \E k \in 1..MaxOps : \E o \in SlowOutcomes : TargetSettles(r, k, o)

SpecCalls == Init /\ [][NextCalls]_vars

\* One request of each kind, answered by the dispatcher and, on top of that,
\* by replies posted by hand: duplicated, of another id, of type error,
\* carrying a wrapped value.
ReplyOps ==
  { [kind |-> "apply", chain |-> <<S1("add")>>, args |-> <<Num(2), Num(3)>>],
    [kind |-> "apply", chain |-> <<S1("a"), S1("b"), S1("then")>>, args |-> <<>>],
    [kind |-> "construct", chain |-> <<S1("Counter")>>, args |-> <<Num(10)>>] }

NextReplies ==
  \/ \E op \in ReplyOps : ClientOp(op)
  \/ \E m \in RawMessages("c") : PeerPost("c", m)
  \/ \E r \in Realms : Deliver(r)

SpecReplies == Init /\ [][NextReplies]_vars

\* Requests that are answered in another order than they were issued: the
\* promise slow() returned settles after later requests have been handled.
OrderOps ==
  { [kind |-> "apply", chain |-> <<S1("add")>>, args |-> <<Num(2), Num(3)>>],
    [kind |-> "apply", chain |-> <<S1("slow")>>, args |-> <<>>],
    [kind |-> "apply", chain |-> <<S1("a"), S1("b"), S1("then")>>, args |-> <<>>] }

NextOrder ==
  \/ \E op \in OrderOps : ClientOp(op)
  \/ \E r \in Realms : Deliver(r)
  \/ \E r \in Realms : \E k \in 1..MaxOps : \E o \in SlowOutcomes : TargetSettles(r, k, o)

SpecOrder == Init /\ [][NextOrder]_vars

\* Requests with unsafe keys, from the caller's own proxy (proxy.constructor(),
\* await proxy.a.myprototype, new proxy.__proto__()) and posted by hand.
UnsafeOps ==
  { [kind |-> "apply", chain |-> <<S1("constructor")>>, args |-> <<>>],
    [kind |-> "apply", chain |-> <<S1("a"), Str(<<"my", "prototype">>), S1("then")>>,
     args |-> <<>>],
    [kind |-> "construct", chain |-> <<S1("__proto__")>>, args |-> <<Num(10)>>] }

NextRequests ==
  \/ \E op \in UnsafeOps : ClientOp(op)
  \/ \E m \in RawMessages("s") : PeerPost("s", m)
  \/ \E r \in Realms : Deliver(r)

SpecRequests == Init /\ [][NextRequests]_vars

\* Requests a peer may post to the dispatcher of the root: chains that end
\* at a missing or inherited key or at a value that is no function or no
\* constructor, requests of invalid shape, and values that are no request.
Req(type, chain) == [id |-> Num(9), type |-> S1(type), keyChain |-> Arr(chain)]
ReqA(type, chain) ==
  [id |-> Num(9), type |-> S1(type), keyChain |-> Arr(chain), args |-> Arr(<<>>)]

WalkMessages ==
  { ReqA("call", <<S1("nope")>>),
    Req("await", <<S1("a"), S1("zz")>>),
    ReqA("construct", <<S1("Nope")>>),
    Req("await", <<S1("a"), S1("b"), S1("c")>>),
    ReqA("call", <<S1("toString")>>),
    Req("await", <<S1("toString")>>),
    ReqA("call", <<S1("counter"), S1("inc")>>),
    ReqA("call", <<S1("a")>>),
    ReqA("call", <<S1("a"), S1("b")>>),
    ReqA("construct", <<S1("a")>>),
    ReqA("construct", <<S1("add")>>) }

WalkOps ==
  { [kind |-> "apply", chain |-> <<S1("add")>>, args |-> <<Num(2), Num(3)>>],
    [kind |-> "apply", chain |-> <<S1("counter"), S1("n"), S1("then")>>, args |-> <<>>] }

NextWalk ==
  \/ \E op \in WalkOps : ClientOp(op)
  \/ \E m \in WalkMessages : PeerPost("s", m)
  \/ \E r \in Realms : Deliver(r)

SpecWalk == Init /\ [][NextWalk]_vars

\* Await requests whose chains stay on own properties: through objects,
\* through the class Counter to its static member, through a function to
\* its length and name, and the empty chain.
NextStatics ==
  \/ \E op \in WalkOps : ClientOp(op)
  \/ \E chain \in { <<>>, <<S1("a"), S1("b")>>, <<S1("Counter"), S1("zero")>>,
                    <<S1("add"), S1("length")>>, <<S1("add"), S1("name")>>,
                    <<S1("counter"), S1("n")>> } :
       PeerPost("s", Req("await", chain))
  \/ \E r \in Realms : Deliver(r)

SpecStatics == Init /\ [][NextStatics]_vars

\* Messages of invalid shape, and values that are no request at all.
ShapeMessages ==
  { [id |-> Num(9), type |-> S1("call"), keyChain |-> S1("add"), args |-> Arr(<<>>)],
    [id |-> Num(9), type |-> S1("await")],
    Req("await", <<Num(5)>>),
    ReqA("call", <<S1("a"), Null>>),
    Req("call", <<S1("add")>>),
    [id |-> Num(9), type |-> S1("call"), keyChain |-> Arr(<<S1("add")>>), args |-> S1("x")],
    Req("construct", <<S1("Counter")>>),
    [id |-> Num(9), type |-> S1("construct"), keyChain |-> Arr(<<S1("Counter")>>),
     args |-> Num(1)],
    ReqA("foo", <<S1("add")>>),
    [id |-> Num(9)],
    [type |-> S1("call"), keyChain |-> Arr(<<S1("add")>>), args |-> Arr(<<>>)],
    [id |-> Num(1), type |-> S1("response"), data |-> [type |-> S1("any"), data |-> Num(5)]],
    S1("hello") }

ShapeOps ==
  { [kind |-> "apply", chain |-> <<S1("add")>>, args |-> <<Num(2), Num(3)>>],
    [kind |-> "apply", chain |-> <<S1("boom")>>, args |-> <<>>] }

NextShape ==
  \/ \E op \in ShapeOps : ClientOp(op)
  \/ \E m \in ShapeMessages : PeerPost("s", m)
  \/ \E r \in Realms : Deliver(r)

SpecShape == Init /\ [][NextShape]_vars

\* Inbound values of every kind, targets that throw, and a transport that
\* refuses posts.
FaultMessages(r) ==
  IF r = "s"
  THEN { Null, S1("hello"), [id |-> Num(9)],
         ReqA("call", <<S1("boom")>>),
         [id |-> Num(9), type |-> S1("call"), keyChain |-> Arr(<<S1("add")>>),
          args |-> Arr(<<Null>>)] }
  ELSE { Null, S1("hello"),
         [id |-> Num(1), type |-> S1("error"), error |-> S1("bad")],
         [id |-> Num(1), type |-> S1("response")] }

FaultOps ==
  { [kind |-> "apply", chain |-> <<S1("add")>>, args |-> <<Num(2), Num(3)>>],
    [kind |-> "apply", chain |-> <<S1("fail")>>, args |-> <<>>] }

NextFaults ==
  \/ \E op \in FaultOps : ClientOp(op)
  \/ \E op \in {o \in FaultOps : o.chain = <<S1("add")>>} : ClientOpFailing(op)
  \/ \E r \in Realms : \E m \in FaultMessages(r) : PeerPost(r, m)
  \/ \E r \in Realms : Deliver(r)
  \/ \E r \in Realms : DeliverFailing(r)

SpecFaults == Init /\ [][NextFaults]_vars

\* Calls that hand the caller's function cb to the exposed root, between
\* faithful peers.
CallbackOps ==
  { [kind |-> "apply", chain |-> <<S1("both")>>, args |-> <<Fn("cb")>>],
    [kind |-> "apply", chain |-> <<S1("add")>>, args |-> <<Num(2), Num(3)>>],
    [kind |-> "construct", chain |-> <<S1("Counter")>>, args |-> <<Fn("cb")>>] }

NextCallback ==
  \/ \E op \in CallbackOps : ClientOp(op)
  \/ \E r \in Realms : Deliver(r)

SpecCallback == Init /\ [][NextCallback]_vars

\* Both peers call expose(Root, E) and wrap(E) on the one endpoint they
\* share: every message event of the endpoint runs the two listeners, in
\* the order they were added.
InitDuplex ==
  /\ uniqueInRealmId = [r \in Realms |-> 0]
  /\ uuidsIssued = [r \in Realms |-> 0]
  /\ promiseMap = [r \in Realms |-> EmptyMap]
  /\ promises = [r \in Realms |-> <<>>]
  /\ listeners = [r \in Realms |->
                    <<[kind |-> "expose", path |-> <<>>, obj |-> Root],
                      [kind |-> "wrap", path |-> <<>>, obj |-> Undef]>>]
  /\ queue = [r \in Realms |-> <<>>]
  /\ suspended = [r \in Realms |-> <<>>]
  /\ reqs = [r \in Realms |-> <<>>]
  /\ runs = <<>>
  /\ opsDone = 0
  /\ rawDone = 0
  /\ muxDone = 0
  /\ proxies = <<NewProxy(<<>>)>>

NextDuplex ==
  \/ \E op \in ReplyOps : ClientOp(op)
  \/ \E r \in Realms : Len(reqs[r]) < MaxHops /\ Deliver(r)

SpecDuplex == InitDuplex /\ [][NextDuplex]_vars

----------------------------------------------------------------------------
(* The codec at work: calls and constructions with arguments of every      *)
(* class of value, awaits and calls whose results do or do not hold        *)
(* functions.                                                              *)

CodecValues ==
  { Num(2), S1("x"), Null, Undef,
    Obj("Object", (Key("b") :> Num(7))),
    Obj("Object", (Key("run") :> Fn("cb")) @@ (Key("b") :> Num(7))),
    Fn("cb"), Arr(<<Num(1)>>), Arr(<<Fn("cb")>>) }

CodecOps ==
  { [kind |-> "apply", chain |-> <<S1("add")>>, args |-> <<v>>] : v \in CodecValues }
  \cup { [kind |-> "construct", chain |-> <<S1("Counter")>>, args |-> <<v>>] :
            v \in {Num(10), Fn("cb")} }
  \cup { [kind |-> "apply", chain |-> <<S1("a"), S1("then")>>, args |-> <<>>],
          [kind |-> "apply", chain |-> <<S1("add"), S1("then")>>, args |-> <<>>],
          [kind |-> "apply", chain |-> <<S1("list")>>, args |-> <<>>],
          [kind |-> "apply", chain |-> <<S1("make")>>, args |-> <<>>] }

NextCodec ==
  \/ \E op \in CodecOps : ClientOp(op)
  \/ \E r \in Realms : Deliver(r)

SpecCodec == Init /\ [][NextCodec]_vars

\* The caller holds wrap(E) and, once make() has been answered, the
\* wrap of the sub-channel endpoint G that unwrapArg derived from E; the
\* peer posts a response by hand inside G, with an id of its choice.
NextCross ==
  \/ \E op \in {o \in CodecOps : o.chain = <<S1("make")>> \/ o.args = <<Num(2)>>} :
       ClientOp(op)
  \/ \E id \in 1..3 :
       PeerPost("c", Envelope(<<Num(1)>>,
                              [id |-> Num(id), type |-> S1("response"),
                               data |-> [type |-> S1("any"), data |-> Num(5)]]))
  \/ \E r \in Realms : Deliver(r)

SpecCross == Init /\ [][NextCross]_vars

----------------------------------------------------------------------------
(* Property access on the proxies of wrap(E), interleaved with calls,      *)
(* constructions and awaits on the proxies reached from the root proxy.    *)

Symbol == [t |-> "symbol"]
ProxyKeys == {S1("a"), S1("then"), Symbol}

\* proxies[i][p]; the caller of these runs does not await the root proxy.
ProxyGet(i, p) ==
  /\ i \in 1..Len(proxies)
  /\ ~(i = 1 /\ p = S1("then"))
  /\ p \in DOMAIN proxies[i].getters \/ p = Symbol \/ Len(proxies) < MaxProxies
  /\ Commit("c", endRun(getTrap(Pack("c", "get", <<>>, Undef), i, p)), queue)
  /\ UNCHANGED <<opsDone, rawDone, muxDone>>

NextProxy ==
  \/ \E i \in 1..MaxProxies : \E p \in ProxyKeys : ProxyGet(i, p)
  \/ \E i \in 2..Len(proxies) : \E kind \in {"apply", "construct"} :
       ClientOp([kind |-> kind, chain |-> proxies[i].keyChain, args |-> <<>>])
  \/ \E r \in Realms : Deliver(r)

SpecProxy == Init /\ [][NextProxy]_vars

----------------------------------------------------------------------------
(* The multiplexer on its own: the user derives endpoints with             *)
(* createChannel, registers a listener on each and posts on them.          *)

MuxTags == {Num(0), Num(1), S1("1")}
MuxPaths == {<<t>> : t \in MuxTags} \cup {<<Num(1), S1("1")>>}
MuxValues == {S1("hello"), [channel |-> S1("1"), payload |-> S1("inner")]}

\* channelListeners.add(listener) with a list in place of the Set.
channelListenersAddTwice(lis, l) == Append(lis, l)

\* channelListeners.add(listener): a Set holds a listener once.  A handler
\* of a derived endpoint is the record of its endpoint ch and its own
\* identity h.
channelListenersAdd(lis, l) ==
  IF \E i \in 1..Len(lis) : lis[i] = l THEN lis ELSE Append(lis, l)

\* ch = createChannel(...createChannel(E, path[1])..., path[n]);
\* ch.addEventListener('message', listener)
MuxCreate(r, path) ==
  /\ muxDone < MaxMux
  /\ listeners' = [listeners EXCEPT ![r] =
                     channelListenersAdd(@, [kind |-> "probe", path |-> path,
                                             obj |-> [ch |-> muxDone + 1, h |-> muxDone + 1]])]
  /\ muxDone' = muxDone + 1
  /\ runs' = <<>>
  /\ UNCHANGED <<uniqueInRealmId, uuidsIssued, promiseMap, promises, queue,
                 suspended, reqs, opsDone, rawDone, proxies>>

\* ch.addEventListener('message', listener) on the derived endpoint of the
\* i-th handler: with a listener of its own, or with the i-th once more.
MuxAdd(r, i, again) ==
  /\ muxDone < MaxMux
  /\ i \in 1..Len(listeners[r])
  /\ listeners[r][i].kind = "probe"
  /\ listeners' = [listeners EXCEPT ![r] =
                     channelListenersAdd(@, IF again THEN listeners[r][i]
                                            ELSE [listeners[r][i] EXCEPT !.obj.h = muxDone + 1])]
  /\ muxDone' = muxDone + 1
  /\ runs' = <<>>
  /\ UNCHANGED <<uniqueInRealmId, uuidsIssued, promiseMap, promises, queue,
                 suspended, reqs, opsDone, rawDone, proxies>>

\* ch.removeEventListener('message', listener) of the i-th handler.  The
\* record stays, marked removed, so that what a removed handler is handed
\* later can be told.
MuxRemove(r, i) ==
  /\ muxDone < MaxMux
  /\ i \in 1..Len(listeners[r])
  /\ listeners[r][i].kind = "probe"
  /\ listeners' = [listeners EXCEPT ![r][i].kind = "removed"]
  /\ muxDone' = muxDone + 1
  /\ runs' = <<>>
  /\ UNCHANGED <<uniqueInRealmId, uuidsIssued, promiseMap, promises, queue,
                 suspended, reqs, opsDone, rawDone, proxies>>

\* ch.postMessage(v), lines 67-73
MuxPost(r, path, v) ==
  /\ muxDone < MaxMux
  /\ LET st == postMessage(Pack(r, "post", path, v), path, v)
     IN Commit(r, [st EXCEPT !.runs = <<st.run>>], queue)
  /\ muxDone' = muxDone + 1
  /\ UNCHANGED <<opsDone, rawDone>>

InitMux ==
  /\ uniqueInRealmId = [r \in Realms |-> 0]
  /\ uuidsIssued = [r \in Realms |-> 0]
  /\ promiseMap = [r \in Realms |-> EmptyMap]
  /\ promises = [r \in Realms |-> <<>>]
  /\ listeners = [r \in Realms |-> <<>>]
  /\ queue = [r \in Realms |-> <<>>]
  /\ suspended = [r \in Realms |-> <<>>]
  /\ reqs = [r \in Realms |-> <<>>]
  /\ runs = <<>>
  /\ opsDone = 0
  /\ rawDone = 0
  /\ muxDone = 0
  /\ proxies = <<NewProxy(<<>>)>>


NextMux ==
  \/ \E r \in Realms : \E path \in MuxPaths : MuxCreate(r, path)
  \/ \E r \in Realms : \E path \in MuxPaths : \E v \in MuxValues : MuxPost(r, path, v)
  \/ \E r \in Realms : Deliver(r)

SpecMux == InitMux /\ [][NextMux]_vars

\* connectEndpoints(A, B), A and B being the base endpoints "c" and "s" held
\* by one relay: a listener on each, both of connection muxDone + 1.
connectEndpoints ==
  /\ muxDone < MaxMux
  /\ listeners' = [r \in Realms |->
                     Append(listeners[r], [kind |-> "forward", path |-> <<>>,
                                           obj |-> [ch |-> muxDone + 1, h |-> r]])]
  /\ muxDone' = muxDone + 1
  /\ runs' = <<>>
  /\ UNCHANGED <<uniqueInRealmId, uuidsIssued, promiseMap, promises, queue,
                 suspended, reqs, opsDone, rawDone, proxies>>

\* The cleanup function connection c returned: both listeners are removed
\* (the records stay, marked removed).
cleanup(c) ==
  /\ muxDone < MaxMux
  /\ \E i \in 1..Len(listeners["c"]) :
       listeners["c"][i].kind = "forward" /\ listeners["c"][i].obj.ch = c
  /\ listeners' = [r \in Realms |->
                     [i \in 1..Len(listeners[r]) |->
                        IF listeners[r][i].kind = "forward" /\ listeners[r][i].obj.ch = c
                        THEN [listeners[r][i] EXCEPT !.kind = "removed"]
                        ELSE listeners[r][i]]]
  /\ muxDone' = muxDone + 1
  /\ runs' = <<>>
  /\ UNCHANGED <<uniqueInRealmId, uuidsIssued, promiseMap, promises, queue,
                 suspended, reqs, opsDone, rawDone, proxies>>

\* withLogging(E, {logIncoming}).addEventListener('message', l): with
\* logIncoming the base endpoint gets a new function, loggingListener, that
\* logs and calls l; without it the base endpoint gets l itself.  off tells
\* whether removeEventListener was called for l.
withLoggingAdd(r, logIncoming) ==
  /\ muxDone < MaxMux
  /\ listeners' = [listeners EXCEPT ![r] =
                     Append(@, [kind |-> IF logIncoming THEN "logging" ELSE "probe",
                                path |-> <<>>,
                                obj |-> [ch |-> muxDone + 1, h |-> muxDone + 1,
                                         off |-> FALSE]])]
  /\ muxDone' = muxDone + 1
  /\ runs' = <<>>
  /\ UNCHANGED <<uniqueInRealmId, uuidsIssued, promiseMap, promises, queue,
                 suspended, reqs, opsDone, rawDone, proxies>>

\* withLogging(E, ...).removeEventListener('message', l), l being the
\* listener added in the i-th place: endpoint.removeEventListener(type, l)
\* removes l from the base endpoint when l itself is registered there, and
\* nothing when the registered function is the loggingListener around l.
withLoggingRemove(r, i) ==
  /\ muxDone < MaxMux
  /\ i \in 1..Len(listeners[r])
  /\ listeners[r][i].kind \in {"logging", "probe"}
  /\ ~listeners[r][i].obj.off
  /\ listeners' = [listeners EXCEPT ![r][i].obj.off = TRUE,
                                    ![r][i].kind = IF @ = "probe" THEN "removed" ELSE @]
  /\ muxDone' = muxDone + 1
  /\ runs' = <<>>
  /\ UNCHANGED <<uniqueInRealmId, uuidsIssued, promiseMap, promises, queue,
                 suspended, reqs, opsDone, rawDone, proxies>>

NextRelay ==
  \/ connectEndpoints
  \/ \E c \in 1..MaxMux : cleanup(c)
  \/ \E r \in Realms : \E logIncoming \in BOOLEAN : withLoggingAdd(r, logIncoming)
  \/ \E r \in Realms : \E i \in 1..(2 * MaxMux) : withLoggingRemove(r, i)
  \/ \E r \in Realms : \E m \in MuxValues : PeerPost(r, m)
  \/ \E r \in Realms : Deliver(r)

SpecRelay == InitMux /\ [][NextRelay]_vars

\* Fan-out in realm "s": derived endpoints of the same and of other tags
\* with handlers added and removed, while realm "c" posts on its derived
\* endpoints and other messages reach the base endpoint.
FanMessages ==
  { Null,
    [id |-> Num(1), type |-> S1("call"), keyChain |-> Arr(<<>>), args |-> Arr(<<>>)],
    [channel |-> Num(1)],
    [channel |-> Num(1), payload |-> S1("shared message")] }

NextFan ==
  \/ \E path \in MuxPaths \ {<<Num(0)>>} : MuxCreate("s", path)
  \/ \E i \in 1..MaxMux : \E again \in BOOLEAN : MuxAdd("s", i, again)
  \/ \E i \in 1..MaxMux : MuxRemove("s", i)
  \/ \E path \in MuxPaths \ {<<Num(0)>>, <<S1("1")>>} : \E v \in MuxValues :
       MuxPost("c", path, v)
  \/ \E m \in FanMessages : PeerPost("s", m)
  \/ Deliver("s")

SpecFan == InitMux /\ [][NextFan]_vars

----------------------------------------------------------------------------
(* Properties.                                                             *)

\* The requests the dispatcher is meant for: a message without a channel
\* field, asking for an await, a call or a construct.
BareRequest(d) ==
  /\ IsRec(d)
  /\ "channel" \notin DOMAIN d
  /\ Get(d, "type") \in {S1("await"), S1("call"), S1("construct")}

C2_ErrorRejectsWaiter ==
  \A k \in 1..Len(runs) :
    LET run == runs[k] IN
      ( /\ run.kind = "wrap"
        /\ IsRec(run.data)
        /\ "channel" \notin DOMAIN run.data
        /\ Get(run.data, "type") = S1("error") )
      => /\ Get(run.data, "id") \notin DOMAIN promiseMap[run.realm]
         /\ \A i \in 1..Len(promises[run.realm]) :
              promises[run.realm][i].id = Get(run.data, "id")
                => promises[run.realm][i].state # "pending"

\* C3: a wrap handler that settles a pending request with a response whose
\* data is {type:'wraped', id:K} fulfils the promise with the sub-proxy on
\* the sub-channel K and posts nothing.
C3_WrapedResponseQuiescent ==
  \A k \in 1..Len(runs) :
    LET run == runs[k] IN
      ( /\ run.kind = "wrap"
        /\ run.resolved # <<>>
        /\ Get(Get(run.data, "data"), "type") = S1("wraped") )
      => /\ run.posted = <<>>
         /\ \A j \in 1..Len(run.resolved) :
              LET p == promises[run.realm][run.resolved[j]] IN
                /\ p.state = "fulfilled"
                /\ p.value = ProxyVal(Append(run.path, Get(Get(run.data, "data"), "id")), <<>>)

\* C4: every response a dispatcher posts to a construct request carries
\* data of type 'wraped'.
C4_ConstructAlwaysWraped ==
  \A k \in 1..Len(runs) :
    LET run == runs[k] IN
      (run.kind = "expose" /\ BareRequest(run.data) /\ Get(run.data, "type") = S1("construct"))
      => \A j \in 1..Len(run.posted) :
           run.posted[j].type = S1("response") => run.posted[j].data.type = S1("wraped")

\* C5: a dispatcher handed a bare request whose key chain has a key
\* containing '__proto__', 'prototype' or 'constructor' posts one error
\* reply with the request's id and does not start the walk: it comes to no
\* key, reads no property and invokes nothing.
C5_UnsafeKeyRejected ==
  \A k \in 1..Len(runs) :
    LET run == runs[k]
        kc == Get(run.data, "keyChain")
    IN ( /\ run.kind = "expose"
         /\ BareRequest(run.data)
         /\ IsArray(kc)
         /\ \E i \in 1..Len(kc.items) : \E j \in 1..Len(kc.items[i].s) :
              kc.items[i].s[j] \in {"__proto__", "prototype", "constructor"} )
       => /\ run.posted = <<[id |-> Get(run.data, "id"), type |-> S1("error"),
                             error |-> run.posted[1].error]>>
          /\ run.steps = 0
          /\ run.reads = 0
          /\ run.invoked = <<>>

\* A dispatcher has just answered a request with an unsafe key.
C5_Witness ==
  \E k \in 1..Len(runs) :
    /\ runs[k].kind = "expose"
    /\ BareRequest(runs[k].data)
    /\ \E i \in 1..Len(runs[k].data.keyChain.items) :
         includes(runs[k].data.keyChain.items[i], "constructor")
    /\ Len(runs[k].posted) = 1
    /\ runs[k].posted[1].type = S1("error")

\* C6: a dispatcher that has finished with a bare await, call or construct
\* request of valid shape has posted exactly one reply for it, a response or
\* an error, and at no time more than one; the reply carries the request's
\* id.
C6_ExactlyOneReply ==
  /\ \A r \in Realms : \A i \in 1..Len(reqs[r]) :
       LET q == reqs[r][i] IN
         ( /\ BareRequest(q.d)
           /\ Get(q.d, "id") # Undef
           /\ IsArray(Get(q.d, "keyChain"))
           /\ Get(q.d, "type") # S1("await") => IsArray(Get(q.d, "args")) )
         => /\ q.nresp + q.nerr <= 1
            /\ q.done => q.nresp + q.nerr = 1
  /\ \A k \in 1..Len(runs) :
       (runs[k].kind \in {"expose", "resume"} /\ BareRequest(runs[k].data))
       => \A j \in 1..Len(runs[k].posted) :
            runs[k].posted[j].type \in {S1("response"), S1("error")}
              => runs[k].posted[j].id = Get(runs[k].data, "id")

\* The identifiers realm r has put to use: the ids of its requests, in the
\* order createPromise took them, then the ids of the values it wrapped.
AllocatedIds(r) ==
  LET objs == SelectSeq(listeners[r], LAMBDA l : l.kind = "expose" /\ l.path # <<>>)
  IN [i \in 1..Len(promises[r]) |-> promises[r][i].id]
     \o [i \in 1..Len(objs) |-> objs[i].path[Len(objs[i].path)]]

\* C7: the identifiers allocated in one realm, request ids and object ids
\* alike, are pairwise distinct.
C7_IdsPairwiseDistinct ==
  \A r \in Realms : \A i, j \in 1..Len(AllocatedIds(r)) :
    i # j => AllocatedIds(r)[i] # AllocatedIds(r)[j]

\* The caller's realm has allocated request ids and an object id, and has
\* gone past the counter's limit.
C7_Witness ==
  /\ uuidsIssued["c"] >= 1
  /\ Len(promises["c"]) >= 3
  /\ \E i \in 1..Len(listeners["c"]) :
       listeners["c"][i].kind = "expose" /\ listeners["c"][i].path # <<>>

\* C8: a listener registered on a derived endpoint observes a message posted
\* on a derived endpoint only if the two endpoints have the same first tag.
C8_ChannelIsolation ==
  \A k \in 1..Len(runs) :
    (runs[k].kind = "probe" /\ runs[k].via # <<>>)
    => /\ runs[k].path # <<>>
       /\ Head(runs[k].path) = Head(runs[k].via)

\* A message posted on the endpoint of tag 1 has reached the listener of
\* tag 1 in a realm that also has a listener of tag '1'.
C8_Witness ==
  \E k \in 1..Len(runs) :
    /\ runs[k].kind = "probe"
    /\ runs[k].via = <<Num(1)>>
    /\ runs[k].path = <<Num(1)>>
    /\ \E i \in 1..Len(listeners[runs[k].realm]) :
         listeners[runs[k].realm][i].path = <<S1("1")>>

\* C9: the handlers wrap and expose install on the base endpoint ignore a
\* message that has a channel field: they do not validate it, post nothing,
\* settle nothing and invoke nothing.
C9_ChannelMessagesIgnored ==
  \A k \in 1..Len(runs) :
    LET run == runs[k] IN
      ( /\ run.kind \in {"wrap", "expose"}
        /\ run.path = <<>>
        /\ IsRec(run.data)
        /\ "channel" \in DOMAIN run.data )
      => /\ ~run.handled
         /\ ~run.caught
         /\ run.posted = <<>>
         /\ run.resolved = <<>>
         /\ run.invoked = <<>>

\* C10: as long as every message is one wrap or expose posted, the promise
\* of the caller's "new Counter(...)", once settled, holds a proxy; and a
\* call of a method the instance inherits from its prototype, handled by
\* the dispatcher of a Counter instance, is answered with a response.
C10_InstanceMethodCall ==
  /\ \A i \in 1..Len(promises["c"]) :
       LET p == promises["c"][i] IN
         (rawDone = 0 /\ p.origin = "user" /\ p.type = "construct"
            /\ p.chain = <<S1("Counter")>> /\ p.state # "pending")
         => p.state = "fulfilled" /\ p.value.t = "proxy"
  /\ \A i \in 1..Len(reqs["s"]) :
       LET q == reqs["s"][i] IN
         ( /\ BareRequest(q.d)
           /\ Get(q.d, "type") = S1("call")
           /\ q.done
           /\ \E j \in 1..Len(listeners["s"]) :
                LET l == listeners["s"][j] IN
                  /\ l.kind = "expose"
                  /\ l.path = q.path
                  /\ l.obj.t = "obj"
                  /\ Len(q.d.keyChain.items) = 1
                  /\ q.d.keyChain.items[1].s \in Inherited(l.obj.proto) )
         => q.nresp = 1 /\ q.nerr = 0

\* The encoding of arguments none of which is wrapped.
EncodeAny(args) == Arr([a \in 1..Len(args) |-> [type |-> S1("any"), data |-> args[a]]])
DecodeAny(ds) == [a \in 1..Len(ds.items) |-> ds.items[a].data]

\* C11: a function passed as a call argument is encoded as {type:'wraped',
\* id:J} and exposed on sub-channel J; a target that invokes the decoded
\* sub-proxy posts exactly one call request with keyChain [] on J for each
\* invocation; the caller's dispatcher on J handles each such request by
\* invoking the function exactly once with the decoded arguments and
\* answering with what it returned; and the server's promise of the
\* invocation is fulfilled with that return value once nothing is in flight.
C11_CallbackRoundTrip ==
  /\ \A i \in 1..Len(runs) :
       LET r == runs[i] IN
         /\ r.kind = "op" /\ r.data.kind = "apply" =>
              /\ Len(r.posted) = 1
              /\ Len(r.posted[1].args.items) = Len(r.data.args)
              /\ \A k \in 1..Len(r.data.args) :
                   r.data.args[k].t = "fn" =>
                     /\ Get(r.posted[1].args.items[k], "type") = S1("wraped")
                     /\ \E l \in 1..Len(listeners["c"]) :
                          listeners["c"][l] =
                            [kind |-> "expose",
                             path |-> <<Get(r.posted[1].args.items[k], "id")>>,
                             obj |-> r.data.args[k]]
         /\ r.realm = "s" /\ r.kind = "expose" =>
              \A k \in 1..Len(r.invoked) :
                LET o == TargetCall(r.invoked[k], r.invokedWith[k]) IN
                  o.kind = "invoke" =>
                    /\ Len(r.posted) = Len(o.calls)
                    /\ \A j \in 1..Len(r.posted) :
                         /\ r.postedOn[j] = <<r.data.args.items[1].id>>
                         /\ r.posted[j].type = S1("call")
                         /\ r.posted[j].keyChain = Arr(<<>>)
                         /\ r.posted[j].args = EncodeAny(o.calls[j])
         /\ ( /\ r.realm = "c" /\ r.kind = "expose" /\ r.handled
              /\ Get(r.data, "type") = S1("call")
              /\ Get(r.data, "keyChain") = Arr(<<>>)
              /\ listeners["c"][r.li].obj.t = "fn" ) =>
              LET f == listeners["c"][r.li].obj IN
                /\ r.invoked = <<f>>
                /\ r.invokedWith = <<DecodeAny(r.data.args)>>
                /\ r.posted = <<[id |-> r.data.id, type |-> S1("response"),
                                 data |-> [type |-> S1("any"),
                                           data |-> TargetCall(f, DecodeAny(r.data.args)).v]]>>
                /\ r.postedOn = <<r.path>>
  /\ \A pi \in 1..Len(promises["s"]) :
       LET p == promises["s"][pi] IN
         p.type = "call" /\ p.chain = <<>> =>
           /\ p.state = "fulfilled" => p.value = TargetCall(Fn("cb"), p.args).v
           /\ queue["c"] = <<>> /\ queue["s"] = <<>> => p.state = "fulfilled"

\* both(cb) has run to its end: the server's two invocations of the
\* sub-proxy were fulfilled with 2 and 4, and the caller's promise with 4.
C11_Witness ==
  /\ \E pi \in 1..Len(promises["s"]) :
       /\ promises["s"][pi].type = "call" /\ promises["s"][pi].chain = <<>>
       /\ promises["s"][pi].args = <<Num(1)>>
       /\ promises["s"][pi].state = "fulfilled" /\ promises["s"][pi].value = Num(2)
  /\ \E pi \in 1..Len(promises["s"]) :
       /\ promises["s"][pi].type = "call" /\ promises["s"][pi].chain = <<>>
       /\ promises["s"][pi].args = <<Num(2)>>
       /\ promises["s"][pi].state = "fulfilled" /\ promises["s"][pi].value = Num(4)
  /\ \E pi \in 1..Len(promises["c"]) :
       /\ promises["c"][pi].chain = <<S1("both")>>
       /\ promises["c"][pi].state = "fulfilled" /\ promises["c"][pi].value = Num(4)

\* The run of a dispatcher in which the target of a call was invoked and
\* threw, or in which the promise it returned rejected.
TargetThrew(r) ==
  /\ r.kind \in {"expose", "resume"}
  /\ Get(r.data, "type") = S1("call")
  /\ r.caught
  /\ r.kind = "expose" => r.invoked # <<>>

\* C12: when the target of a call throws, or the promise it returned
\* rejects, the dispatcher run posts exactly one message, an error reply
\* with the request's id, whatever the thrown value is; for a thrown Error
\* the reply's error is its message.
C12_ErrorReplyForEveryThrow ==
  \A i \in 1..Len(runs) :
    TargetThrew(runs[i]) =>
      /\ Len(runs[i].posted) = 1
      /\ runs[i].posted[1].type = S1("error")
      /\ runs[i].posted[1].id = Get(runs[i].data, "id")
      /\ runs[i].threw.t = "error" => runs[i].posted[1].error = runs[i].threw.message

\* The request of a dispatcher run passes assertValidRPCCall and is an
\* await, a call or a construct.
ValidRequest(d) ==
  /\ ~assertValidRPCCall(d).thrown
  /\ Get(d, "type") \in {S1("await"), S1("call"), S1("construct")}

\* Walking keys from obj comes to a key that is no own property of the
\* value reached.
RECURSIVE MissingKey(_, _)
MissingKey(obj, keys) ==
  /\ keys # <<>>
  /\ \/ ~hasOwnProperty(obj, Head(keys))
     \/ MissingKey(GetProp(obj, Head(keys)), Tail(keys))

Resolves(r, type) ==
  /\ r.kind = "expose" /\ r.handled
  /\ ValidRequest(r.data)
  /\ r.data.type = S1(type)
  /\ ~MissingKey(listeners[r.realm][r.li].obj, r.data.keyChain.items)

Resolved(r) == getKeyChain(listeners[r.realm][r.li].obj, r.data.keyChain).val

\* C14: a dispatcher run for a call request whose key chain resolves to a
\* value that is no function posts exactly one message, an error reply with
\* the request's id whose message contains 'not a function', and invokes
\* nothing.
C14_CallOfNonFunction ==
  \A i \in 1..Len(runs) :
    LET r == runs[i] IN
      (Resolves(r, "call") /\ TypeOf(Resolved(r)) # "function")
      => /\ Len(r.posted) = 1
         /\ r.posted[1].type = S1("error")
         /\ r.posted[1].id = r.data.id
         /\ includes(r.posted[1].error, "not a function")
         /\ r.invoked = <<>>

\* The call of a.b, the number 7, has been answered with the error.
C14_Witness ==
  \E i \in 1..Len(runs) :
    /\ Resolves(runs[i], "call")
    /\ Resolved(runs[i]) = Num(7)
    /\ Len(runs[i].posted) = 1
    /\ runs[i].posted[1].type = S1("error")
    /\ includes(runs[i].posted[1].error, "not a function")

\* C15: a dispatcher run for a construct request whose key chain resolves
\* to a value that is no constructor posts exactly one message, an error
\* reply with the request's id whose message contains 'not a constructor',
\* and instantiates nothing.
C15_ConstructOfNonConstructor ==
  \A i \in 1..Len(runs) :
    LET r == runs[i] IN
      (Resolves(r, "construct") /\ Resolved(r) # Fn("Counter"))
      => /\ Len(r.posted) = 1
         /\ r.posted[1].type = S1("error")
         /\ r.posted[1].id = r.data.id
         /\ includes(r.posted[1].error, "not a constructor")
         /\ r.made = <<>>

\* d has a defined id and a type, and its keyChain is no array, or holds
\* an element that is no string, or d is a call or construct whose args is
\* no array.
BadShape(d) ==
  /\ IsRec(d)
  /\ "channel" \notin DOMAIN d
  /\ Get(d, "id") # Undef
  /\ Truthy(Get(d, "type"))
  /\ \/ ~IsArray(Get(d, "keyChain"))
     \/ \E k \in 1..Len(Get(d, "keyChain").items) :
          TypeOf(Get(d, "keyChain").items[k]) # "string"
     \/ /\ Get(d, "type") \in {S1("call"), S1("construct")}
        /\ ~IsArray(Get(d, "args"))

\* C16: a dispatcher run on a bare message with a defined id and a type
\* whose keyChain is no array or holds a non-string, or whose args (for a
\* call or construct) is no array, posts exactly one message, an error
\* reply with the message's id; it walks no key of the exposed root and
\* invokes nothing.
C16_BadShapeIsError ==
  \A i \in 1..Len(runs) :
    LET r == runs[i] IN
      (r.kind = "expose" /\ r.handled /\ BadShape(r.data))
      => /\ Len(r.posted) = 1
         /\ r.posted[1].type = S1("error")
         /\ r.posted[1].id = r.data.id
         /\ r.steps = 0 /\ r.reads = 0
         /\ r.invoked = <<>>
         /\ r.made = <<>>

\* A construct of Counter whose args is the number 1 has been answered
\* with an error.
C16_Witness ==
  \E i \in 1..Len(runs) :
    /\ runs[i].kind = "expose" /\ runs[i].handled /\ BadShape(runs[i].data)
    /\ runs[i].data.type = S1("construct")
    /\ IsArray(Get(runs[i].data, "keyChain"))
    /\ Get(runs[i].data, "args") = Num(1)
    /\ Len(runs[i].posted) = 1
    /\ runs[i].posted[1].type = S1("error")
    /\ includes(runs[i].posted[1].error, "Invalid RPC call: args must be an array")

\* C17: a dispatcher run on a bare message that is no await, call or
\* construct request of valid shape posts exactly one message, an error
\* reply with the message's id (undefined when it has none); so does the
\* run on a message with a defined id, a valid keyChain and another type.
C17_InvalidRequestIsError ==
  \A i \in 1..Len(runs) :
    LET r == runs[i] IN
      (r.kind = "expose" /\ r.handled /\ ~ValidRequest(r.data))
      => /\ Len(r.posted) = 1
         /\ r.posted[1].type = S1("error")
         /\ r.posted[1].id = Get(r.data, "id")

\* C18: no run of a listener installed by wrap or by expose lets an
\* exception leave the listener: whatever the inbound value is, and also
\* when the target throws or the transport refuses the reply and the error
\* reply, what is thrown is caught and logged, and a failed post sends
\* nothing.
C18_NothingEscapes ==
  \A i \in 1..Len(runs) :
    LET r == runs[i] IN
      r.kind \in {"wrap", "expose"} =>
        /\ ~r.escaped
        /\ (~r.handled => ~r.caught /\ r.posted = <<>>)
        /\ (r.kind = "wrap" /\ r.handled /\ assertValidRPCResponse(r.data).thrown
             => r.caught /\ r.resolved = <<>>)
        /\ (r.kind = "expose" /\ r.handled /\ assertValidRPCCall(r.data).thrown
             => r.caught /\ r.invoked = <<>>)
        /\ (r.sendFailed => r.caught /\ r.posted = <<>>)
        /\ (r.threw = PostError => r.sendFailed)

\* The transport refused the response of add(2, 3): the dispatcher caught
\* the failure, the error reply failed as well, and nothing was sent.
C18_Witness ==
  \E i \in 1..Len(runs) :
    /\ runs[i].kind = "expose" /\ runs[i].handled
    /\ runs[i].invoked = <<Fn("add")>>
    /\ runs[i].threw = PostError
    /\ runs[i].caught /\ runs[i].sendFailed /\ ~runs[i].escaped
    /\ runs[i].posted = <<>>

\* Run r of a wrap listener handled a bare message of one of the types.
Processed(r, types) ==
  /\ r.kind = "wrap" /\ r.handled
  /\ IsRec(r.data)
  /\ Get(r.data, "id") # Undef
  /\ Get(r.data, "type") \in types

\* C19: a step in which a wrap listener handles a response whose id is not
\* in the pending-request table settles no promise, leaves the table as it
\* was, and creates no channel, proxy or listener, also when the data of
\* the response is {type:'wraped', id}.
C19_UnknownIdDiscarded ==
  [][\A k \in 1..Len(runs') :
       LET r == runs'[k] IN
         ( /\ Processed(r, {S1("response")})
           /\ Get(r.data, "id") \notin DOMAIN promiseMap[r.realm] )
         => /\ r.resolved = <<>>
            /\ r.made = <<>>
            /\ r.posted = <<>>
            /\ Len(runs') = 1 =>
                 /\ promiseMap'[r.realm] = promiseMap[r.realm]
                 /\ promises'[r.realm] = promises[r.realm]
                 /\ listeners'[r.realm] = listeners[r.realm]]_vars

\* C20: the pending-request table holds the id of a request from the step
\* that emits it until a wrap listener has processed a response or an error
\* message with that id: the step that makes a promise puts its id into
\* the table, the step that processes such a message takes the id out, and
\* no other step takes an id out.
C20_EntryUntilProcessed ==
  [][/\ \A r \in Realms :
          \A i \in (Len(promises[r]) + 1)..Len(promises'[r]) :
            promises'[r][i].id \in DOMAIN promiseMap'[r]
     /\ \A k \in 1..Len(runs') :
          ( /\ Processed(runs'[k], {S1("response"), S1("error")})
            /\ Get(runs'[k].data, "id") \in DOMAIN promiseMap[runs'[k].realm] )
          => Get(runs'[k].data, "id") \notin DOMAIN promiseMap'[runs'[k].realm]
     /\ \A r \in Realms :
          \A id \in DOMAIN promiseMap[r] \ DOMAIN promiseMap'[r] :
            \E k \in 1..Len(runs') :
              /\ runs'[k].realm = r
              /\ Processed(runs'[k], {S1("response"), S1("error")})
              /\ Get(runs'[k].data, "id") = id]_vars

\* What the exposed root answers to the request promise p stands for: the
\* value at the end of the chain for an await, what the target returns for
\* a call, 1 for slow().
Answer(p) ==
  IF p.type = "await" THEN getKeyChain(Root, Arr(p.chain)).val
  ELSE IF p.chain = <<S1("slow")>> THEN Num(1)
       ELSE TargetCall(getKeyChain(Root, Arr(p.chain)).val, p.args).v

\* C21: whatever the order in which the responses of concurrently pending
\* requests arrive, a promise of the caller is settled only by the response
\* that bears its own id and is fulfilled with the decoded data of that
\* response, the answer to its own request.
C21_ResolvedByOwnResponse ==
  /\ \A i \in 1..Len(promises["c"]) :
       LET p == promises["c"][i] IN
         /\ \A j \in 1..Len(p.by) : p.by[j] = p.id
         /\ p.state = "fulfilled" => p.value = Answer(p)
  /\ \A k \in 1..Len(runs) : \A j \in 1..Len(runs[k].resolved) :
       LET p == promises[runs[k].realm][runs[k].resolved[j]] IN
         /\ p.id = runs[k].data.id
         /\ p.state = "fulfilled"
         /\ p.value = runs[k].data.data.data

\* slow() was issued first and add(2, 3) second; the response of add has
\* arrived and fulfilled its promise with 5 while slow() is still pending.
C21_Witness ==
  /\ Len(promises["c"]) >= 2
  /\ promises["c"][1].chain = <<S1("slow")>> /\ promises["c"][1].state = "pending"
  /\ promises["c"][2].chain = <<S1("add")>> /\ promises["c"][2].state = "fulfilled"
  /\ promises["c"][2].value = Num(5)
  /\ \E k \in 1..Len(runs) : runs[k].resolved = <<2>>

\* C22: a dispatcher run whose target returned a promise that is not yet
\* settled posts nothing and leaves its request open; while it waits, the
\* run for any later request posts its one reply; when the promise settles
\* the waiting run posts its one reply; every reply bears the id of the
\* request of its own run.
C22_RepliesWhenSettled ==
  /\ \A k \in 1..Len(runs) :
       LET r == runs[k] IN
         /\ (r.realm = "s" /\ r.kind = "expose" /\ r.handled /\ r.invoked = <<Fn("slow")>>)
            => r.posted = <<>>
         /\ (r.realm = "s" /\ r.kind = "expose" /\ r.handled /\ r.invoked # <<Fn("slow")>>)
            => /\ Len(r.posted) = 1
               /\ r.posted[1].type = S1("response")
               /\ r.posted[1].id = r.data.id
         /\ r.kind = "resume"
            => /\ Len(r.posted) = 1
               /\ r.posted[1].type \in {S1("response"), S1("error")}
               /\ r.posted[1].id = r.data.id
  /\ \A i \in 1..Len(suspended["s"]) :
       LET q == reqs["s"][suspended["s"][i].ri] IN
         ~q.done /\ q.nresp + q.nerr = 0
  /\ \A i \in 1..Len(reqs["s"]) :
       LET q == reqs["s"][i] IN
         /\ q.nresp + q.nerr <= 1
         /\ ~q.done => \E j \in 1..Len(suspended["s"]) : suspended["s"][j].ri = i

\* The promise of slow() has just settled and its run has posted the
\* response of request 1, after the reply to a request that arrived later
\* had been sent.
C22_Witness ==
  /\ Len(runs) = 1 /\ runs[1].kind = "resume"
  /\ runs[1].posted # <<>> /\ runs[1].posted[1].type = S1("response")
  /\ \E i, j \in 1..Len(reqs["s"]) :
       /\ i < j
       /\ reqs["s"][i].d.id = runs[1].data.id
       /\ reqs["s"][j].done /\ reqs["s"][j].nresp = 1
       /\ reqs["s"][j].d.id # runs[1].data.id

\* C23: a string property of a proxy yields the same proxy object on every
\* access: what an access to a key read before returns is the proxy the
\* getters map already held, and no step of any kind changes or drops an
\* entry of a getters map.
C23_SameProxyPerKey ==
  [][
      /\ \A i \in 1..Len(proxies) : \A k \in DOMAIN proxies[i].getters :
           /\ i <= Len(proxies')
           /\ k \in DOMAIN proxies'[i].getters
           /\ proxies'[i].getters[k] = proxies[i].getters[k]
      /\ (runs' # <<>> /\ runs'[1].kind = "get" /\ runs'[1].data.key # Symbol)
           => LET d == runs'[1].data
              IN /\ d.key \in DOMAIN proxies'[d.proxy].getters
                 /\ proxies'[d.proxy].getters[d.key] = d.result
                 /\ d.before = (d.key \in DOMAIN proxies[d.proxy].getters)
                 /\ proxies'[d.result].keyChain = Append(proxies[d.proxy].keyChain, d.key)
    ]_vars

C23_Witness ==
  /\ runs # <<>> /\ runs[1].kind = "get" /\ runs[1].data.before
  /\ runs[1].data.result < Len(proxies)
  /\ opsDone >= 1 /\ Len(promises["c"]) >= 1 /\ promises["c"][1].state # "pending"

\* C24: a property access on a client proxy posts nothing, allocates no id
\* and adds no pending entry (it changes nothing but the proxies handed
\* out); an invocation or construction of a proxy, a chain ending in 'then'
\* included, allocates one id, adds one pending entry and posts one message.
C24_AccessIsSilent ==
  [][
      /\ (runs' # <<>> /\ runs'[1].kind = "get")
           => /\ queue' = queue
              /\ uniqueInRealmId' = uniqueInRealmId /\ uuidsIssued' = uuidsIssued
              /\ promiseMap' = promiseMap /\ promises' = promises
              /\ listeners' = listeners
              /\ runs'[1].posted = <<>> /\ runs'[1].made = <<>>
      /\ (runs' # <<>> /\ runs'[1].kind = "op")
           => /\ Len(queue'["s"]) = Len(queue["s"]) + 1
              /\ Cardinality(DOMAIN promiseMap'["c"]) = Cardinality(DOMAIN promiseMap["c"]) + 1
              /\ Len(promises'["c"]) = Len(promises["c"]) + 1
              /\ \/ uniqueInRealmId'["c"] = uniqueInRealmId["c"] + 1
                 \/ uuidsIssued'["c"] = uuidsIssued["c"] + 1
    ]_vars

C24_Witness ==
  /\ runs # <<>> /\ runs[1].kind = "get" /\ runs[1].data.key # Symbol
  /\ ~runs[1].data.before
  /\ Len(proxies[runs[1].data.result].keyChain) = 2
  /\ queue["s"] = <<>> /\ queue["c"] = <<>> /\ promises["c"] = <<>>

\* The caller's operation op invokes a chain that ends in 'then'.
IsAwaitOp(op) ==
  op.kind = "apply" /\ op.chain # <<>> /\ op.chain[Len(op.chain)] = S1("then")

\* C25: invoking the proxy with key chain k1..kn, 'then' posts exactly one
\* message, {id, type: 'await', keyChain: [k1..kn]} with n >= 0 and no call
\* message, and the promise bound to that id holds the first argument of the
\* invocation as its fulfilment reaction and the second as its rejection
\* reaction; the same holds of the awaits that promise jobs start.
C25_ThenIsAwait ==
  /\ \A k \in 1..Len(runs) :
       (runs[k].kind = "op" /\ IsAwaitOp(runs[k].data))
         => /\ Len(runs[k].posted) = 1
            /\ runs[k].posted[1].type = S1("await")
            /\ DOMAIN runs[k].posted[1] = {"id", "type", "keyChain"}
            /\ runs[k].posted[1].keyChain
                 = Arr(SubSeq(runs[k].data.chain, 1, Len(runs[k].data.chain) - 1))
            /\ runs[k].posted[1].id \in DOMAIN promiseMap["c"]
            /\ LET p == promises["c"][promiseMap["c"][runs[k].posted[1].id]]
               IN /\ p.id = runs[k].posted[1].id
                  /\ p.subs = <<UserCont>>
                  /\ p.rejs = <<Rej(UserCont)>>
  /\ \A r \in Realms : \A i \in 1..Len(promises[r]) :
       promises[r][i].type = "await"
         => /\ Len(promises[r][i].subs) = 1
            /\ promises[r][i].rejs = <<Rej(promises[r][i].subs[1])>>
  /\ \A r \in Realms : \A k \in 1..Len(queue[r]) :
       LET m == queue[r][k].m
       IN (queue[r][k].via = <<>> /\ "keyChain" \in DOMAIN m /\ m.keyChain.items # <<>>)
            => m.keyChain.items[Len(m.keyChain.items)] # S1("then")

C25_Witness ==
  /\ Len(runs) = 1 /\ runs[1].kind = "op" /\ IsAwaitOp(runs[1].data)
  /\ runs[1].data.chain = <<S1("then")>>
  /\ runs[1].posted[1].keyChain = Arr(<<>>)
  /\ \E i \in 1..Len(promises["c"]) :
       /\ promises["c"][i].chain = <<S1("a"), S1("b")>>
       /\ promises["c"][i].subs = <<UserCont>>
       /\ promises["c"][i].state = "fulfilled"

\* v has a function among its top-level values: an own value of an object
\* or an element of an array.
HasTopLevelFunction(v) ==
  /\ ~IsRec(v)
  /\ \/ v.t = "obj" /\ \E k \in DOMAIN v.own : TypeOf(v.own[k]) = "function"
     \/ v.t = "arr" /\ \E i \in 1..Len(v.items) : TypeOf(v.items[i]) = "function"

C27_FunctionsAlwaysWraped ==
  \A k \in 1..Len(runs) : \A j \in 1..Len(runs[k].encoded) :
    LET e == runs[k].encoded[j]
    IN (TypeOf(e.v) = "function" \/ HasTopLevelFunction(e.v))
         => e.d.type = S1("wraped")

\* C27: in every encode of the core a value that is a function, or an
\* object that is no array and has a function among its own values, is
\* encoded as {type: 'wraped', id} with a fresh id and one exposure of the
\* value on the sub-channel of that id; an array is encoded inline whatever
\* it holds.
C27_NonArrayFunctionsWraped ==
  \A k \in 1..Len(runs) : \A j \in 1..Len(runs[k].encoded) :
    LET e == runs[k].encoded[j]
    IN /\ (TypeOf(e.v) = "function" \/ (HasTopLevelFunction(e.v) /\ ~IsArray(e.v)))
            => /\ DOMAIN e.d = {"type", "id"}
               /\ e.d.type = S1("wraped")
               /\ e.ids = 1
               /\ Len(e.exposed) = 1
               /\ e.exposed[1].kind = "expose"
               /\ e.exposed[1].obj = e.v
               /\ e.exposed[1].path # <<>>
               /\ e.exposed[1].path[Len(e.exposed[1].path)] = e.d.id
               /\ \A k2 \in 1..Len(runs) : \A j2 \in 1..Len(runs[k2].encoded) :
                    (runs[k2].realm = runs[k].realm /\ <<k2, j2>> # <<k, j>>
                       /\ "id" \in DOMAIN runs[k2].encoded[j2].d)
                      => runs[k2].encoded[j2].d.id # e.d.id
       /\ IsArray(e.v) => e.d = [type |-> S1("any"), data |-> e.v]

C27_Witness ==
  \E k \in 1..Len(runs) : \E j \in 1..Len(runs[k].encoded) :
    /\ runs[k].kind = "expose"
    /\ runs[k].encoded[j].v = Obj("Object", (Key("run") :> Fn("cb")))
    /\ runs[k].encoded[j].d.type = S1("wraped")
    /\ \E i \in 1..Len(promises["c"]) :
         /\ promises["c"][i].args = <<Fn("cb")>>
         /\ promises["c"][i].state # "pending"

\* What the handlers of the endpoint derived along path (one or two tags)
\* are to be handed of message m of the base endpoint: ok when m is an
\* object whose channel field is exactly the tag, and then its payload.
Expected(m, path) ==
  LET OnChannel(x, t) == IsRec(x) /\ "channel" \in DOMAIN x /\ x.channel = t
      PayloadOf(x) == IF IsRec(x) /\ "payload" \in DOMAIN x THEN x.payload ELSE Undef
  IN [ok |-> /\ OnChannel(m, path[1])
             /\ Len(path) = 2 => OnChannel(PayloadOf(m), path[2]),
      data |-> IF Len(path) = 1 THEN PayloadOf(m) ELSE PayloadOf(PayloadOf(m))]

\* The step takes the first message in flight to realm "s" and delivers it.
Delivery == queue["s"] # <<>> /\ queue'["s"] = Tail(queue["s"])

C29_FanOut ==
  [][
      /\ Delivery
           => /\ \A i \in 1..Len(listeners["s"]) :
                   LET l == listeners["s"][i]
                       mine == {k \in 1..Len(runs') :
                                  listeners["s"][runs'[k].li].obj = l.obj}
                   IN Cardinality(mine) =
                        IF l.kind = "probe" /\ Expected(Head(queue["s"]).m, l.path).ok
                        THEN 1 ELSE 0
              /\ listeners' = listeners
      /\ \A i \in 1..Len(listeners["s"]) :
           /\ i <= Len(listeners'["s"])
           /\ listeners'["s"][i].obj = listeners["s"][i].obj
           /\ listeners["s"][i].kind = "removed" => listeners'["s"][i].kind = "removed"
      /\ Cardinality({listeners["s"][i].obj.ch : i \in
               {j \in 1..Len(listeners["s"]) : listeners'["s"][j] # listeners["s"][j]}}
            \cup {listeners'["s"][i].obj.ch : i \in
               (Len(listeners["s"]) + 1)..Len(listeners'["s"])}) <= 1
    ]_vars

C29_Witness ==
  /\ Len(runs) = 1 /\ runs[1].kind = "probe" /\ runs[1].data = S1("shared message")
  /\ \E i, j \in 1..Len(listeners["s"]) :
       /\ listeners["s"][i].path = listeners["s"][j].path
       /\ listeners["s"][i].obj.ch # listeners["s"][j].obj.ch
       /\ listeners["s"][i].kind = "removed"
       /\ listeners["s"][j].kind = "probe" /\ runs[1].li = j

\* C30: the integers getId returns in a realm are strictly increasing and
\* none is returned after a random identifier; no integer lies beyond the
\* safe-integer limit; the counter never decreases, stands still once it
\* has exceeded the limit minus 1000, and random identifiers are issued
\* only from then on.
C30_MonotoneThenRandom ==
  [][
      \A r \in Realms :
        /\ \A i, j \in 1..Len(promises[r]) :
             (i < j /\ promises[r][j].id.t = "num")
               => /\ promises[r][i].id.t = "num"
                  /\ promises[r][i].id.n < promises[r][j].id.n
        /\ \A i \in 1..Len(AllocatedIds(r)) :
             LET id == AllocatedIds(r)[i]
             IN /\ id.t \in {"num", "uuid"}
                /\ id.t = "num" => /\ id.n >= 1 /\ id.n <= uniqueInRealmId[r]
                                    /\ id.n <= MAX_SAFE_INTEGER
                /\ id.t = "uuid" => /\ uniqueInRealmId[r] > MAX_SAFE_INTEGER - 1000
                                     /\ id.n <= uuidsIssued[r]
        /\ uniqueInRealmId'[r] >= uniqueInRealmId[r]
        /\ uuidsIssued'[r] >= uuidsIssued[r]
        /\ uniqueInRealmId[r] > MAX_SAFE_INTEGER - 1000
             => uniqueInRealmId'[r] = uniqueInRealmId[r]
        /\ uuidsIssued'[r] > uuidsIssued[r]
             => uniqueInRealmId'[r] > MAX_SAFE_INTEGER - 1000
        /\ uniqueInRealmId'[r] <= MAX_SAFE_INTEGER - 999
    ]_vars

C30_Witness ==
  /\ uniqueInRealmId["c"] = MAX_SAFE_INTEGER - 999
  /\ uuidsIssued["c"] = 2
  /\ \E i \in 1..Len(promises["c"]) : promises["c"][i].id = Num(MAX_SAFE_INTEGER - 999)
  /\ promises["c"][Len(promises["c"])].id.t = "uuid"

\* C31: when the post of a client request fails, nothing is thrown to the
\* caller, who still gets the promise of the request; that promise stays
\* pending and its entry stays in the pending table.
C31_SendFailureNotPropagated ==
  \A k \in 1..Len(runs) :
    (runs[k].kind = "op" /\ runs[k].sendFailed)
      => /\ ~runs[k].escaped
         /\ runs[k].threw = Undef
         /\ promises["c"] # <<>>
         /\ promises["c"][Len(promises["c"])].state = "pending"
         /\ promises["c"][Len(promises["c"])].id \in DOMAIN promiseMap["c"]

\* C32: while a connection made by connectEndpoints stands, each message
\* event on one of its endpoints is posted exactly once, with the same data,
\* on the other; after its cleanup function was called it forwards nothing
\* more in either direction, and the other connections on the same
\* endpoints forward as before.
C32_ForwardUntilCleanup ==
  [][
      \A r \in Realms :
        (queue[r] # <<>> /\ queue'[r] = Tail(queue[r]))
          => \A i \in 1..Len(listeners[r]) :
               LET mine == {k \in 1..Len(runs') : runs'[k].li = i}
               IN /\ listeners[r][i].kind = "forward"
                       => /\ Cardinality(mine) = 1
                          /\ \A k \in mine :
                               /\ runs'[k].posted = <<Head(queue[r]).m>>
                               /\ runs'[k].postedOn = <<<<Peer(r)>>>>
                  /\ listeners[r][i].kind = "removed" => mine = {}
    ]_vars

C32_Witness ==
  /\ Len(runs) = 1 /\ runs[1].kind = "forward" /\ runs[1].realm = "s"
  /\ runs[1].posted = <<S1("hello")>>
  /\ Len(listeners["s"]) = 2 /\ Len(listeners["c"]) = 2
  /\ listeners["s"][1].kind = "removed" /\ listeners["c"][1].kind = "removed"
  /\ listeners["s"][2].kind = "forward" /\ runs[1].li = 2

\* C38: a listener for which removeEventListener was called on the
\* endpoint returned by withLogging is not run by later message events,
\* with logIncoming and without.
C38_RemovedListenerIsSilent ==
  \A k \in 1..Len(runs) :
    runs[k].kind \in {"logging", "probe"}
      => ~listeners[runs[k].realm][runs[k].li].obj.off


\* C33: when both peers have wrap and expose on the same endpoint, no run
\* of a dispatcher on an inbound message of type response or error posts an
\* error reply: replies are not answered by further replies.
C33_RepliesNotAnswered ==
  \A k \in 1..Len(runs) :
    LET r == runs[k] IN
      ( /\ r.kind = "expose" /\ r.handled
        /\ IsRec(r.data)
        /\ Get(r.data, "type") \in {S1("response"), S1("error")} )
      => \A j \in 1..Len(r.posted) : Get(r.posted[j], "type") # S1("error")

\* C34: on the transport the two peers share, a sub-channel tag hosts at
\* most one wrapped value: no two dispatchers exposed for wrapped values,
\* in the same realm or in the two realms, listen on the same sub-channel.
C34_OneValuePerTag ==
  \A r1 \in Realms : \A r2 \in Realms :
    \A i \in 1..Len(listeners[r1]) : \A j \in 1..Len(listeners[r2]) :
      LET l1 == listeners[r1][i]
          l2 == listeners[r2][j]
      IN ( /\ l1.kind = "expose" /\ l2.kind = "expose"
           /\ l1.path # <<>> /\ l1.path = l2.path )
         => r1 = r2 /\ i = j

\* C35: a response that arrives on another endpoint of the realm than the
\* one a request was issued on does not settle that request's promise.  The
\* caller's operations are issued on the root proxy of the base endpoint E,
\* so no run of a wrap listener of a sub-channel endpoint resolves the
\* promise of an operation of the caller.
C35_SettledOnOwnEndpoint ==
  \A k \in 1..Len(runs) :
    LET r == runs[k] IN
      (r.kind = "wrap" /\ r.path # <<>>)
      => \A j \in 1..Len(r.resolved) :
           promises[r.realm][r.resolved[j]].origin # "user"

\* C36: when a response is processed its entry has left the pending-request
\* table before any continuation of the resolved promise runs: the request
\* that a continuation of the promise issues (the await on the proxy the
\* promise was resolved with) is made while the table no longer holds the
\* id, the id is out of the table when the step is over, and the resolve
\* function of the waiter has been called once.
C36_EntryGoneBeforeContinuation ==
  /\ \A r \in Realms : \A i \in 1..Len(promises[r]) :
       \A j \in 1..Len(promises[r][i].subs) :
         LET c == promises[r][i].subs[j] IN
           c.k = "promise" => promises[r][c.pi].id \notin promises[r][i].table
  /\ \A k \in 1..Len(runs) :
       runs[k].kind = "wrap" =>
         \A j \in 1..Len(runs[k].resolved) :
           LET p == promises[runs[k].realm][runs[k].resolved[j]] IN
             /\ p.id \notin DOMAIN promiseMap[runs[k].realm]
             /\ p.calls = 1

\* The response of make() was processed: the promise of the call is locked
\* on the proxy it was resolved with, and its continuation has issued the
\* await request of that proxy in the same step.
C36_Witness ==
  \E k \in 1..Len(runs) :
    /\ runs[k].kind = "wrap" /\ runs[k].realm = "c"
    /\ Len(runs[k].resolved) = 1
    /\ LET pi == runs[k].resolved[1] IN
         /\ promises["c"][pi].state = "locked"
         /\ \E i \in 1..Len(promises["c"]) :
              /\ promises["c"][i].subs = <<PromiseCont(pi)>>
              /\ promises["c"][i].type = "await"
              /\ promises["c"][i].id \in DOMAIN promiseMap["c"]

\* C37: the chain walk succeeds whenever every key of the chain is an own
\* property of the value reached so far, whatever the type of that value
\* (an object, an array, a function carrying own properties, or a root
\* that is itself a function and an empty chain): the dispatcher run for
\* such an await request reads every key and posts a response.
C37_WalkThroughAnyValue ==
  \A i \in 1..Len(runs) :
    LET r == runs[i] IN
      ( /\ r.kind = "expose" /\ r.handled
        /\ ValidRequest(r.data)
        /\ r.data.type = S1("await")
        /\ ~MissingKey(listeners[r.realm][r.li].obj, r.data.keyChain.items) )
      => /\ Len(r.posted) = 1
         /\ r.posted[1].type = S1("response")
         /\ r.reads = Len(r.data.keyChain.items)

\* C39: every identifier the allocator has returned is truthy, so the tag
\* of every sub-channel made for a wrapped value is truthy, and the
\* listeners wrap and expose put on the base endpoint leave every message
\* posted on such a sub-channel alone: their channel test takes it for
\* sub-channel traffic.
C39_IdsAreTruthy ==
  /\ \A r \in Realms : \A i \in 1..Len(AllocatedIds(r)) : Truthy(AllocatedIds(r)[i])
  /\ \A r \in Realms : \A i \in 1..Len(listeners[r]) :
       \A j \in 1..Len(listeners[r][i].path) : Truthy(listeners[r][i].path[j])
  /\ \A k \in 1..Len(runs) :
       ( /\ runs[k].kind \in {"wrap", "expose"}
         /\ runs[k].path = <<>>
         /\ runs[k].via # <<>> )
       => ~runs[k].handled /\ runs[k].posted = <<>> /\ runs[k].resolved = <<>>

\* A message posted on the sub-channel of a wrapped value has reached the
\* listener of the base endpoint, which left it alone, and the realm that
\* wrapped the value has handed out a random identifier as well.
C39_Witness ==
  /\ \E k \in 1..Len(runs) :
       /\ runs[k].kind \in {"wrap", "expose"}
       /\ runs[k].path = <<>>
       /\ runs[k].via # <<>>
       /\ ~runs[k].handled
  /\ \E r \in Realms : \E i \in 1..Len(AllocatedIds(r)) : AllocatedIds(r)[i].t = "uuid"
====
